---------------------------- MODULE Spec2Model ----------------------------
(***************************************************************************)
(* Model of the hiwave metrics tooling:                                    *)
(*   - test-infrastructure/scripts/regression-check.py (RegressionDetector *)
(*     and its main), and                                                  *)
(*   - scripts/collect_metrics.py (source resolution, extractors,          *)
(*     platform reconciliation, overall summary and history), and          *)
(*   - scripts/aggregate_parity_results.py (aggregation of the swarm       *)
(*     reports of all platforms and its exit status).                      *)
(*                                                                         *)
(* JSON values are modelled as tagged values [type, value]: a dict is a    *)
(* TLA+ function from key strings to values, so that "key in d" is         *)
(* "key \in DOMAIN d".  Numbers that the code keeps as floats are exact    *)
(* here: a percent change is a reduced fraction [num, den] (den > 0), and  *)
(* parity values are integers counted in hundredths of a percent.          *)
(***************************************************************************)
EXTENDS Integers, Sequences, FiniteSets, TLC

VARIABLES
    \* ---- regression-check.py ----
    pc,               \* position of main()
    current_results,  \* parsed results_file
    baseline_results, \* parsed baseline file
    regressions,      \* RegressionDetector.regressions
    improvements,     \* RegressionDetector.improvements
    analysis,         \* value returned by detector.analyze()
    exit_code,        \* process exit status (-1 while running)
    report_written,   \* TRUE once json.dump(analysis, f) has run
    call,             \* a direct call of compare_metric and its result
    returned,         \* what each analyze() call on the detector returned
    \* ---- collect_metrics.py ----
    submodule,        \* the platform directory handed to collect_platform_metrics
    metrics,          \* what collect_platform_metrics returned for it
    today,            \* the calendar day of datetime.now(), as a day number
    unified_file,     \* metrics/unified.json
    submodules,       \* main(): the platform directories the last run found
    platforms,        \* main(): the platforms dict of the last run
    run_log,          \* main(): the mode of each run so far, in order
    unified,          \* update_history: the dict it is given and changes
    calls,            \* update_history: the platforms arguments of the calls of this day
    grade_input,      \* the perf map handed to calculate_perf_grade
    grade,            \* the grade it returned
    \* ---- aggregate_parity_results.py ----
    input_dir,        \* the swarm_report.json files found under --input-dir
    unified_report,   \* what aggregate_all_platforms returned
    report_saved,     \* TRUE once the report was written to --output
    aggregate_exit    \* process exit status (-1 before the run has ended)

rvars == <<pc, current_results, baseline_results, regressions, improvements,
           analysis, exit_code, report_written, call, returned>>
pvars == <<submodule, metrics>>
cvars == <<unified_file, submodules, platforms, run_log>>
hvars == <<unified, calls>>
gvars == <<grade_input, grade>>
avars == <<input_dir, unified_report, report_saved, aggregate_exit>>
collector == <<pvars, cvars, hvars, gvars, avars, today>>
vars == <<rvars, collector>>

-----------------------------------------------------------------------------
(* Generic helpers: dict access, strings, exact fractions.                 *)

EmptyDict == [k \in {} |-> 0]

\* dict.get(key, default)
Get(d, key, default) == IF key \in DOMAIN d THEN d[key] ELSE default

\* "sub in s" for strings
StrContains(s, sub) ==
    \E i \in 1..(Len(s) - Len(sub) + 1) : SubSeq(s, i, i + Len(sub) - 1) = sub

\* s.replace(old, new): every non-overlapping occurrence, left to right
RECURSIVE StrReplace(_, _, _)
StrReplace(s, old, new) ==
    IF Len(s) < Len(old) THEN s
    ELSE IF SubSeq(s, 1, Len(old)) = old
         THEN new \o StrReplace(SubSeq(s, Len(old) + 1, Len(s)), old, new)
         ELSE SubSeq(s, 1, 1) \o StrReplace(SubSeq(s, 2, Len(s)), old, new)

Abs(n) == IF n < 0 THEN -n ELSE n

RECURSIVE GCD(_, _)
GCD(a, b) == IF b = 0 THEN a ELSE GCD(b, a % b)

\* the fraction n/d (d # 0) in lowest terms with a positive denominator
Rat(n, d) ==
    LET g == GCD(Abs(n), Abs(d))
        s == IF d < 0 THEN -1 ELSE 1
    IN  [num |-> (s * n) \div g, den |-> Abs(d) \div g]

RatGT(r, t) == r.num > t * r.den      \* r > t for an integer t
RatLT(r, t) == r.num < t * r.den      \* r < t for an integer t


-----------------------------------------------------------------------------
(* regression-check.py: RegressionDetector                                 *)

\* RegressionDetector.THRESHOLDS (percent)
THRESHOLDS ==
    [total_time_ms  |-> 5,
     parse_time_ms  |-> 10,
     layout_time_ms |-> 10,
     paint_time_ms  |-> 10,
     memory_mb      |-> 15]

\* threshold used when the metric name is not in THRESHOLDS
DEFAULT_THRESHOLD == 5

\* the metric types analyze() compares, in the order of its loop
METRIC_TYPES == <<"parse_time", "layout_time", "paint_time", "total_time", "memory">>

\* (current_value - baseline_value) / baseline_value * 100, baseline_value # 0
PercentChange(current_value, baseline_value) ==
    Rat((current_value - baseline_value) * 100, baseline_value)

Zero == [num |-> 0, den |-> 1]

\* compare_metric with the bounds included (>= and <= for > and <)
compare_metric_inclusive(metric_name, current_value, baseline_value) ==
    IF baseline_value = 0 THEN <<"neutral", Zero>>
    ELSE LET percent_change == PercentChange(current_value, baseline_value)
             threshold == Get(THRESHOLDS, metric_name, DEFAULT_THRESHOLD)
         IN  IF ~RatLT(percent_change, threshold)
             THEN <<"regression", percent_change>>
             ELSE IF ~RatGT(percent_change, -threshold)
                  THEN <<"improvement", percent_change>>
                  ELSE <<"neutral", percent_change>>

\* compare_metric that reads a growth from a zero baseline as a regression
compare_metric_zero_grows(metric_name, current_value, baseline_value) ==
    LET threshold == Get(THRESHOLDS, metric_name, DEFAULT_THRESHOLD)
        change == IF baseline_value = 0
                  THEN [num |-> current_value * 100, den |-> 1]
                  ELSE PercentChange(current_value, baseline_value)
    IN  IF RatGT(change, threshold) THEN <<"regression", change>>
        ELSE IF RatLT(change, -threshold) THEN <<"improvement", change>>
        ELSE <<"neutral", change>>

\* RegressionDetector.compare_metric: <<classification, percent_change>>
compare_metric(metric_name, current_value, baseline_value) ==
    IF baseline_value = 0 THEN <<"neutral", Zero>>
    ELSE LET percent_change == PercentChange(current_value, baseline_value)
             threshold == Get(THRESHOLDS, metric_name, DEFAULT_THRESHOLD)
         IN  IF RatGT(percent_change, threshold)
             THEN <<"regression", percent_change>>
             ELSE IF RatLT(percent_change, -threshold)
                  THEN <<"improvement", percent_change>>
                  ELSE <<"neutral", percent_change>>

\* MetricName without the _ms suffix of the time metrics
MetricName_unsuffixed(metric_type) ==
    IF metric_type = "memory" THEN "memory_mb" ELSE metric_type

\* the name analyze() hands to compare_metric for a metric type
MetricName(metric_type) ==
    IF metric_type = "memory" THEN "memory_mb"
    ELSE IF StrContains(metric_type, "time")
         THEN StrReplace(metric_type, "_time", "_time_ms")
         ELSE metric_type

\* an ordered dict is a sequence of [name, stats] items with distinct names
HasKey(items, k) == \E i \in 1..Len(items) : items[i].name = k
Lookup(items, k) == items[CHOOSE i \in 1..Len(items) : items[i].name = k].stats

\* an inner loop that lists the neutral results with the improvements
RECURSIVE AnalyzeMetrics_lists_neutral(_, _, _, _, _)
AnalyzeMetrics_lists_neutral(renderer, current_stats, baseline_stats, j, acc) ==
    IF acc.raised \/ j > Len(METRIC_TYPES) THEN acc
    ELSE LET metric_type == METRIC_TYPES[j] IN
         IF metric_type \notin DOMAIN current_stats
               \/ metric_type \notin DOMAIN baseline_stats
         THEN AnalyzeMetrics_lists_neutral(renderer, current_stats, baseline_stats,
                                           j + 1, acc)
         ELSE IF "mean" \notin DOMAIN current_stats[metric_type]
                    \/ "mean" \notin DOMAIN baseline_stats[metric_type]
         THEN [acc EXCEPT !.raised = TRUE]
         ELSE LET current_mean  == current_stats[metric_type]["mean"]
                  baseline_mean == baseline_stats[metric_type]["mean"]
                  metric_name   == MetricName(metric_type)
                  cmp == compare_metric(metric_name, current_mean, baseline_mean)
                  result == [renderer       |-> renderer,
                             metric         |-> metric_name,
                             baseline_value |-> baseline_mean,
                             current_value  |-> current_mean,
                             percent_change |-> cmp[2]]
                  acc2 == IF cmp[1] = "regression"
                          THEN [acc EXCEPT !.regressions = Append(@, result)]
                          ELSE [acc EXCEPT !.improvements = Append(@, result)]
              IN  AnalyzeMetrics_lists_neutral(renderer, current_stats, baseline_stats,
                                               j + 1, acc2)

\* The inner loop of analyze() over METRIC_TYPES[j..], for one renderer.
\* acc = [raised, regressions, improvements]; raised models the KeyError of
\* stats[metric_type]['mean'], which ends the call.
RECURSIVE AnalyzeMetrics(_, _, _, _, _)
AnalyzeMetrics(renderer, current_stats, baseline_stats, j, acc) ==
    IF acc.raised \/ j > Len(METRIC_TYPES) THEN acc
    ELSE LET metric_type == METRIC_TYPES[j] IN
         IF metric_type \notin DOMAIN current_stats
               \/ metric_type \notin DOMAIN baseline_stats
         THEN AnalyzeMetrics(renderer, current_stats, baseline_stats, j + 1, acc)
         ELSE IF "mean" \notin DOMAIN current_stats[metric_type]
                    \/ "mean" \notin DOMAIN baseline_stats[metric_type]
         THEN [acc EXCEPT !.raised = TRUE]
         ELSE LET current_mean  == current_stats[metric_type]["mean"]
                  baseline_mean == baseline_stats[metric_type]["mean"]
                  metric_name   == MetricName(metric_type)
                  cmp == compare_metric(metric_name, current_mean, baseline_mean)
                  result == [renderer       |-> renderer,
                             metric         |-> metric_name,
                             baseline_value |-> baseline_mean,
                             current_value  |-> current_mean,
                             percent_change |-> cmp[2]]
                  acc2 == IF cmp[1] = "regression"
                          THEN [acc EXCEPT !.regressions = Append(@, result)]
                          ELSE IF cmp[1] = "improvement"
                               THEN [acc EXCEPT !.improvements = Append(@, result)]
                               ELSE acc
              IN  AnalyzeMetrics(renderer, current_stats, baseline_stats, j + 1, acc2)

\* The outer loop of analyze() over the items of current['renderers'][i..].
RECURSIVE AnalyzeRenderers(_, _, _, _)
AnalyzeRenderers(cur_items, base_items, i, acc) ==
    IF acc.raised \/ i > Len(cur_items) THEN acc
    ELSE LET renderer == cur_items[i].name IN
         IF ~HasKey(base_items, renderer)
         THEN AnalyzeRenderers(cur_items, base_items, i + 1, acc)
         ELSE AnalyzeRenderers(cur_items, base_items, i + 1,
                  AnalyzeMetrics(renderer, cur_items[i].stats,
                                 Lookup(base_items, renderer), 1, acc))

\* the dict analyze() returns when a 'renderers' key is missing
ErrorResult(base, msg) ==
    [regressions        |-> <<>>,
     improvements       |-> <<>>,
     baseline_commit    |-> Get(base.value, "git_commit", "unknown"),
     baseline_timestamp |-> Get(base.value, "timestamp", "unknown"),
     error              |-> msg]

NoResult == [none |-> TRUE]

\* RegressionDetector.analyze on a detector holding (cur, base, regs, imps):
\* [raised, ret, regressions, improvements].  raised = TRUE is an exception
\* leaving analyze (TypeError / AttributeError / KeyError).
analyze(cur, base, regs, imps) ==
    LET Raise(r, i) == [raised |-> TRUE, ret |-> NoResult,
                        regressions |-> r, improvements |-> i]
    IN
    \* line 53: 'renderers' not in self.baseline
    IF base.type = "number" THEN Raise(regs, imps)
    ELSE IF base.type = "list" THEN Raise(regs, imps)    \* list has no .get
    ELSE IF "renderers" \notin DOMAIN base.value
    THEN [raised |-> FALSE, ret |-> ErrorResult(base, "Invalid baseline format"),
          regressions |-> regs, improvements |-> imps]
    \* line 64: 'renderers' not in self.current
    ELSE IF cur.type = "number" THEN Raise(regs, imps)
    ELSE IF cur.type = "list" \/ "renderers" \notin DOMAIN cur.value
    THEN [raised |-> FALSE,
          ret |-> ErrorResult(base, "Invalid current results format"),
          regressions |-> regs, improvements |-> imps]
    ELSE LET acc == AnalyzeRenderers(cur.value["renderers"], base.value["renderers"], 1,
                        [raised |-> FALSE, regressions |-> regs, improvements |-> imps])
         IN  IF acc.raised THEN Raise(acc.regressions, acc.improvements)
             ELSE [raised |-> FALSE,
                   ret |-> [regressions        |-> acc.regressions,
                            improvements       |-> acc.improvements,
                            baseline_commit    |-> Get(base.value, "git_commit", "unknown"),
                            baseline_timestamp |-> Get(base.value, "timestamp", "unknown")],
                   regressions |-> acc.regressions,
                   improvements |-> acc.improvements]

-----------------------------------------------------------------------------
(* Input documents of the regression checker.                              *)

\* metric means: 100 and the values at and just past -15, -10, -5, +5, +10,
\* +15 percent of 100, a zero, and two negative readings
Values == {0, 84, 85, 89, 90, 94, 95, 100, 105, 106, 110, 111, 115, 116, -100, -106}

\* keys of a renderer's stats: the five compared types and one other
MetricKeys == {"parse_time", "layout_time", "paint_time", "total_time", "memory", "fps"}

\* a metric entry: {"mean": v}, or an entry that lacks 'mean'
Entries == {[mean |-> v] : v \in Values} \cup {[stddev |-> 0]}

\* stats with exactly one metric
SingleStats == {[k \in {m} |-> e] : m \in MetricKeys, e \in Entries}

\* stats with two metrics, one each side of its threshold
PairValues == {80, 100, 120}
PairStats == {[total_time |-> [mean |-> a], memory |-> [mean |-> b]] :
                  a \in PairValues, b \in PairValues}

Stats == SingleStats \cup PairStats \cup {EmptyDict}

\* the value of 'renderers': an ordered dict of renderer name -> stats
RendererItems ==
    {<<>>}
    \cup {<<[name |-> "chromium", stats |-> st]>> : st \in Stats}
    \cup {<<[name |-> r[1], stats |-> [total_time |-> [mean |-> a]]],
            [name |-> r[2], stats |-> [total_time |-> [mean |-> b]]]>> :
              r \in {<<"chromium", "rustkit">>, <<"rustkit", "chromium">>},
              a \in PairValues, b \in PairValues}

Dict(v) == [type |-> "dict", value |-> v]
NoDoc == [type |-> "none", value |-> <<>>]

\* parsed JSON documents: objects with and without 'renderers', and values
\* that are no object
Documents ==
    {Dict([renderers |-> items]) : items \in RendererItems}
    \cup {Dict(EmptyDict), Dict([git_commit |-> "abc1234"])}
    \cup {[type |-> "list", value |-> <<>>], [type |-> "number", value |-> <<>>]}

-----------------------------------------------------------------------------
(* regression-check.py: main                                               *)

RInit ==
    /\ pc = "start"
    /\ current_results = NoDoc
    /\ baseline_results = NoDoc
    /\ regressions = <<>>
    /\ improvements = <<>>
    /\ analysis = NoResult
    /\ exit_code = -1
    /\ report_written = FALSE
    /\ call = <<>>
    /\ returned = <<>>

Exit(code) == pc' = "exit" /\ exit_code' = code

\* an unhandled exception: the interpreter prints the traceback and exits 1
Crash == pc' = "crashed" /\ exit_code' = 1

\* lines 154-163: load the current results file
LoadCurrent ==
    /\ pc = "start"
    /\ UNCHANGED collector
    /\ \E file \in {"missing", "invalid", "ok"} :
          IF file = "ok"
          THEN /\ \E doc \in Documents : current_results' = doc
               /\ pc' = "find_baseline"
               /\ UNCHANGED exit_code
          ELSE /\ Exit(1)
               /\ UNCHANGED current_results
    /\ UNCHANGED <<baseline_results, regressions, improvements, analysis,
                   report_written, call, returned>>

\* lines 165-184: --baseline, or the first perf_baseline.json candidate that
\* exists; without a baseline file the check is skipped
FindBaseline ==
    /\ pc = "find_baseline"
    /\ UNCHANGED collector
    /\ \E given \in BOOLEAN, candidate \in BOOLEAN, exists \in BOOLEAN :
          LET args_baseline == given \/ candidate
              \* a candidate is taken only if it exists
              found == IF given THEN exists ELSE candidate
          IN  IF ~args_baseline \/ ~found
              THEN Exit(0)
              ELSE pc' = "load_baseline" /\ UNCHANGED exit_code
    /\ UNCHANGED <<current_results, baseline_results, regressions, improvements,
                   analysis, report_written, call, returned>>

\* lines 186-196: load the baseline and construct the detector
LoadBaseline ==
    /\ pc = "load_baseline"
    /\ UNCHANGED collector
    /\ \E file \in {"invalid", "ok"} :
          IF file = "ok"
          THEN /\ \E doc \in Documents : baseline_results' = doc
               /\ regressions' = <<>>
               /\ improvements' = <<>>
               /\ pc' = "analyze"
               /\ UNCHANGED exit_code
          ELSE /\ Exit(0)
               /\ UNCHANGED <<baseline_results, regressions, improvements>>
    /\ UNCHANGED <<current_results, analysis, report_written, call, returned>>

\* line 197: analysis = detector.analyze()
Analyze ==
    /\ pc = "analyze"
    /\ UNCHANGED collector
    /\ LET r == analyze(current_results, baseline_results, regressions, improvements)
       IN  /\ regressions' = r.regressions
           /\ improvements' = r.improvements
           /\ analysis' = r.ret
           /\ returned' = IF r.raised THEN returned ELSE Append(returned, r.ret)
           /\ IF r.raised THEN Crash
              ELSE pc' = "report" /\ UNCHANGED exit_code
    /\ UNCHANGED <<current_results, baseline_results, report_written, call>>

\* ExitStatus that fails the run on any listed change
ExitStatus_any_change(regs) == IF regs # <<>> \/ improvements # <<>> THEN 1 ELSE 0

\* lines 213-217: exit code from detector.regressions
ExitStatus(regs) == IF regs # <<>> THEN 1 ELSE 0

\* Report that does not stop at the error marker
Report_ignores_error ==
    /\ pc = "report"
    /\ UNCHANGED collector
    /\ \E args_output \in BOOLEAN, write_ok \in BOOLEAN :
          IF args_output /\ ~write_ok
          THEN Crash /\ UNCHANGED report_written
          ELSE /\ report_written' = args_output
               /\ Exit(ExitStatus(regressions))
    /\ UNCHANGED <<current_results, baseline_results, regressions, improvements,
                   analysis, call, returned>>

\* lines 199-217: error marker, report, optional output file, exit code
Report ==
    /\ pc = "report"
    /\ UNCHANGED collector
    /\ IF "error" \in DOMAIN analysis
       THEN Exit(0) /\ UNCHANGED report_written
       ELSE \E args_output \in BOOLEAN, write_ok \in BOOLEAN :
               IF args_output /\ ~write_ok
               THEN Crash /\ UNCHANGED report_written
               ELSE /\ report_written' = args_output
                    /\ Exit(ExitStatus(regressions))
    /\ UNCHANGED <<current_results, baseline_results, regressions, improvements,
                   analysis, call, returned>>

\* a direct call of detector.compare_metric(renderer, metric_name, cur, base)
MetricNames == {"total_time_ms", "parse_time_ms", "layout_time_ms", "paint_time_ms",
                "memory_mb", "memory", "fps"}

CompareMetric ==
    /\ pc = "start"
    /\ UNCHANGED collector
    /\ \E m \in MetricNames, c \in Values, b \in Values :
          call' = [metric_name |-> m, current_value |-> c, baseline_value |-> b,
                   ret |-> compare_metric(m, c, b)]
    /\ pc' = "compared"
    /\ UNCHANGED <<current_results, baseline_results, regressions, improvements,
                   analysis, exit_code, report_written, returned>>

RNext == LoadCurrent \/ FindBaseline \/ LoadBaseline \/ Analyze \/ Report
            \/ CompareMetric


-----------------------------------------------------------------------------
(* regression-check.py: a RegressionDetector that is called repeatedly     *)

\* the most analyze() calls made on one detector
MaxAnalyze == 2

\* RegressionDetector(current_results, baseline_results), lines 26-30
Construct ==
    /\ pc = "construct"
    /\ \E cur \in Documents, base \in Documents :
          /\ current_results' = cur
          /\ baseline_results' = base
    /\ regressions' = <<>>
    /\ improvements' = <<>>
    /\ pc' = "detector"
    /\ UNCHANGED <<analysis, exit_code, report_written, call, returned>>
    /\ UNCHANGED collector

\* detector.analyze(): the lists of the detector are appended to (lines
\* 105-108) and handed out in the returned dict (lines 110-115); returned
\* keeps each dict as it was when it was returned
CallAnalyze ==
    /\ pc = "detector"
    /\ Len(returned) < MaxAnalyze
    /\ LET r == analyze(current_results, baseline_results, regressions, improvements)
       IN  /\ regressions' = r.regressions
           /\ improvements' = r.improvements
           /\ analysis' = r.ret
           /\ returned' = IF r.raised THEN returned ELSE Append(returned, r.ret)
           /\ pc' = IF r.raised THEN "raised" ELSE "detector"
    /\ UNCHANGED <<current_results, baseline_results, exit_code, report_written, call>>
    /\ UNCHANGED collector

TNext == Construct \/ CallAnalyze

-----------------------------------------------------------------------------
(* collect_metrics.py: values.  Percentages (diff, parity, pass rate) and  *)
(* latencies are integers counted in hundredths, so 73.64 is 7364 and a    *)
(* value rounded to one decimal is a multiple of 10.  A value that may be  *)
(* JSON null is <<>> for null and <<v>> for the number or string v.        *)

None == [none |-> TRUE]          \* Python None where a dict is expected
Null == <<>>
Some(v) == <<v>>

\* d.update(e): the keys of e override those of d
Update(d, e) == e @@ d

RECURSIVE SumSeq(_)
SumSeq(seq) == IF seq = <<>> THEN 0 ELSE Head(seq) + SumSeq(Tail(seq))

\* sum(1 for x in seq if P(x))
Count(seq, P(_)) == Cardinality({i \in 1..Len(seq) : P(seq[i])})

\* round(num/den, ndigits) to the nearest multiple of step (1 for two
\* decimals, 10 for one decimal), a tie going to the even multiple
RoundHalfEven(num, den, step) ==
    LET unit == den * step
        q == num \div unit
        r == num - q * unit
    IN  IF 2 * r < unit THEN q * step
        ELSE IF 2 * r > unit THEN (q + 1) * step
        ELSE IF q % 2 = 0 THEN q * step ELSE (q + 1) * step

\* The values round(h/100, 1) can take for a float near h hundredths: the
\* nearest multiple of 10; on a tie h = ...5 the float decides, to even when
\* h/100 is a binary fraction (a multiple of 0.25), else to the side on
\* which the float nearest to h/100 happens to lie.
RoundOneDecimal(h) ==
    IF h % 10 # 5 \/ h % 25 = 0 THEN {RoundHalfEven(h, 1, 10)}
    ELSE {h - 5, h + 5}

-----------------------------------------------------------------------------
(* collect_metrics.py: source resolution                                   *)

PLATFORMS == <<"macos", "windows", "linux">>           \* SUBMODULES, in order

PARITY_TEST_SOURCES == <<"parity-baseline/parity_test_results.json",
                         "parity_test_results.json">>
BASELINE_SOURCES == <<"parity-baseline/baseline_report.json", "baseline_report.json">>
SWARM_SOURCES == <<"parity-results/swarm_report.json">>

\* a file of a directory: absent, present but not JSON, or parsed to data
Missing == [state |-> "missing", data |-> EmptyDict]
Unparsable == [state |-> "unparsable", data |-> EmptyDict]
Parsed(data) == [state |-> "ok", data |-> data]

\* load_json_file: None if the file does not exist or fails to parse
load_json_file(files, filepath) ==
    IF files[filepath].state = "ok" THEN files[filepath].data ELSE None

\* "if data": None and the empty dict are false
Truthy(data) == data # None /\ data # EmptyDict

\* find_file: [data, source] of the first source that loads to a true value
RECURSIVE FindFrom(_, _, _)
FindFrom(files, sources, i) ==
    IF i > Len(sources) THEN [data |-> None, source |-> Null]
    ELSE LET data == load_json_file(files, sources[i])
         IN  IF Truthy(data) THEN [data |-> data, source |-> Some(sources[i])]
             ELSE FindFrom(files, sources, i + 1)

find_file(files, sources) == FindFrom(files, sources, 1)

-----------------------------------------------------------------------------
(* collect_metrics.py: extractors                                          *)

BUILTIN_CASE_IDS == {"new_tab", "about", "settings", "chrome_rustkit", "shelf"}

\* the dict extract_swarm_metrics builds for one result (lines 123-140)
SwarmTestResult(r) ==
    LET diff_pct == Get(r, "diff_pct_median", 10000)
        parity   == 10000 - diff_pct
        case_id  == Get(r, "case_id", "unknown")
    IN  [case_id  |-> case_id,
         type     |-> IF case_id \in BUILTIN_CASE_IDS THEN "builtins" ELSE "websuite",
         parity   |-> RoundHalfEven(parity, 1, 1),
         diff_pct |-> RoundHalfEven(diff_pct, 1, 1),
         raw      |-> parity,
         passed   |-> Get(r, "passed", FALSE),
         stable   |-> Get(r, "stable", FALSE)]

\* total / count rounded to two decimals, 0 for an empty category
Average(parities) ==
    IF parities = <<>> THEN 0
    ELSE RoundHalfEven(SumSeq(parities), Len(parities), 1)

\* the raw parities of the results of one category
RECURSIVE ParitiesOf(_, _)
ParitiesOf(tests, type) ==
    IF tests = <<>> THEN <<>>
    ELSE (IF Head(tests).type = type THEN <<Head(tests).raw>> ELSE <<>>)
            \o ParitiesOf(Tail(tests), type)

RECURSIVE AllParities(_)
AllParities(tests) ==
    IF tests = <<>> THEN <<>> ELSE <<Head(tests).raw>> \o AllParities(Tail(tests))

\* the per-test dicts as stored in the record (without the working field)
Stored(tests) ==
    [i \in 1..Len(tests) |-> [k \in DOMAIN tests[i] \ {"raw"} |-> tests[i][k]]]

IsPassed(t) == t.passed
IsFailed(t) == ~t.passed
IsStable(t) == Get(t, "stable", FALSE)

\* extract_swarm_metrics (lines 102-170)
extract_swarm_metrics(swarm_data) ==
    LET results == Get(swarm_data, "results", <<>>)
        summary == Get(swarm_data, "summary", EmptyDict)
        tests   == [i \in 1..Len(results) |-> SwarmTestResult(results[i])]
    IN  IF results = <<>> THEN EmptyDict
        ELSE [visual_parity   |-> Average(AllParities(tests)),
              builtins_parity |-> Average(ParitiesOf(tests, "builtins")),
              websuite_parity |-> Average(ParitiesOf(tests, "websuite")),
              tests_passed    |-> Get(summary, "passed", Count(tests, IsPassed)),
              tests_failed    |-> Get(summary, "failed", Count(tests, IsFailed)),
              tests_total     |-> Len(results),
              tests_stable    |-> Get(summary, "stable", Count(tests, IsStable)),
              pass_rate       |-> RoundHalfEven(Get(summary, "pass_rate", 0), 1, 10),
              test_results    |-> Stored(tests)]

\* the dict extract_visual_parity builds for one result (lines 194-207);
\* its category is "builtins" iff r.get("type") == "builtins"
PixelTestResult(r) ==
    LET pixel     == Get(r, "pixel", EmptyDict)
        diff_pct  == Get(pixel, "diffPercent", 10000)
        parity    == 10000 - diff_pct
        threshold == Get(r, "threshold", 1500)
    IN  [case_id   |-> Get(r, "case_id", "None"),
         type      |-> Get(r, "type", "unknown"),
         parity    |-> RoundHalfEven(parity, 1, 1),
         diff_pct  |-> RoundHalfEven(diff_pct, 1, 1),
         raw       |-> parity,
         threshold |-> threshold,
         passed    |-> diff_pct <= threshold]

\* the raw parities of the results that are not builtins (lines 211-216)
RECURSIVE ParitiesNot(_, _)
ParitiesNot(tests, type) ==
    IF tests = <<>> THEN <<>>
    ELSE (IF Head(tests).type # type THEN <<Head(tests).raw>> ELSE <<>>)
            \o ParitiesNot(Tail(tests), type)

\* extract_visual_parity (lines 173-239)
extract_visual_parity(parity_test_data) ==
    LET results == Get(parity_test_data, "results", <<>>)
        tests   == [i \in 1..Len(results) |-> PixelTestResult(results[i])]
        passed_count == Get(parity_test_data, "passed", Count(tests, IsPassed))
        failed_count == Get(parity_test_data, "failed", Count(tests, IsFailed))
    IN  IF results = <<>> THEN EmptyDict
        ELSE [visual_parity   |-> Average(AllParities(tests)),
              builtins_parity |-> Average(ParitiesOf(tests, "builtins")),
              websuite_parity |-> Average(ParitiesNot(tests, "builtins")),
              tests_passed    |-> passed_count,
              tests_failed    |-> failed_count,
              tests_total     |-> Len(results),
              pass_rate       |-> RoundHalfEven(passed_count * 10000, Len(results), 10),
              test_results    |-> Stored(tests)]

\* a scan that completes the null fields of the first perf from later results
RECURSIVE FirstPerf_completes(_)
FirstPerf_completes(results) ==
    IF results = <<>> THEN EmptyDict
    ELSE LET result_perf == Get(Head(results), "perf", EmptyDict)
             later == FirstPerf_completes(Tail(results))
         IN  IF result_perf # EmptyDict
             THEN [k \in {"engine_init_ms", "html_load_ms", "render_time_ms"} |->
                      IF Get(result_perf, k, Null) # Null THEN result_perf[k]
                      ELSE Get(later, k, Null)]
             ELSE later

\* the first true perf dict of a list of results (lines 249-257)
RECURSIVE FirstPerf(_)
FirstPerf(results) ==
    IF results = <<>> THEN EmptyDict
    ELSE LET result_perf == Get(Head(results), "perf", EmptyDict)
         IN  IF result_perf # EmptyDict
             THEN [engine_init_ms |-> Get(result_perf, "engine_init_ms", Null),
                   html_load_ms   |-> Get(result_perf, "html_load_ms", Null),
                   render_time_ms |-> Get(result_perf, "render_time_ms", Null)]
             ELSE FirstPerf(Tail(results))

\* extract_baseline_metrics (lines 242-263)
extract_baseline_metrics(baseline_data) ==
    LET metrics_in == Get(baseline_data, "metrics", EmptyDict)
    IN  [tier_a_pass_rate |-> Get(metrics_in, "tier_a_pass_rate", 0),
         issue_clusters   |-> Get(baseline_data, "issue_clusters", EmptyDict),
         perf |-> FirstPerf(Get(baseline_data, "builtin_results", <<>>)
                               \o Get(baseline_data, "websuite_results", <<>>))]

-----------------------------------------------------------------------------
(* collect_metrics.py: platform reconciliation and grading                 *)

Max(a, b) == IF a >= b THEN a ELSE b

\* lines 287-290 and 298-301: the extracted metrics with the headline parity,
\* its source and the time of the report
Headline(visual_metrics, source, data, now) ==
    Update(visual_metrics,
           [parity        |-> Get(visual_metrics, "visual_parity", 0),
            parity_source |-> source,
            last_updated  |-> Get(data, "timestamp", now)])

\* an estimate that reads tier_b_weighted_mean from the report's metrics and
\* does not clamp
BaselineEstimate_unclamped(record, baseline_metrics, baseline_data, now) ==
    IF "parity" \notin DOMAIN record
    THEN LET tier_b == Get(Get(baseline_data, "metrics", EmptyDict),
                           "tier_b_weighted_mean", 10000)
         IN  Update(record,
                    [parity        |-> 10000 - tier_b,
                     parity_source |-> "baseline_estimate",
                     last_updated  |-> Get(baseline_data, "timestamp", now)])
    ELSE record

\* lines 305-310: a parity estimated from the baseline report, only for a
\* record that has no parity yet
BaselineEstimate(record, baseline_metrics, baseline_data, now) ==
    IF "parity" \notin DOMAIN record
    THEN LET tier_b == Get(baseline_metrics, "tier_b_weighted_mean", 10000)
         IN  Update(record,
                    [parity        |-> Max(0, 10000 - tier_b),
                     parity_source |-> "baseline_estimate",
                     last_updated  |-> Get(baseline_data, "timestamp", now)])
    ELSE record

\* lines 312-313
WithClusters(record, baseline_metrics) ==
    IF baseline_metrics.issue_clusters # EmptyDict
    THEN Update(record, [issue_clusters |-> baseline_metrics.issue_clusters])
    ELSE record

\* lines 316-317
WithPerf(record, baseline_metrics) ==
    IF baseline_metrics.perf # EmptyDict
    THEN Update(record, [perf |-> baseline_metrics.perf])
    ELSE record

\* lines 319-321
WithTierA(record, baseline_metrics) ==
    Update(record, [tier_a_pass_rate |-> Get(baseline_metrics, "tier_a_pass_rate", 0)])

\* an enrichment that is skipped when swarm or pixel diff supplied the parity
Enrich_without_headline(record, baseline_metrics, baseline_data, now) ==
    IF "parity" \in DOMAIN record THEN record
    ELSE WithTierA(
             WithPerf(
                 WithClusters(
                     BaselineEstimate(record, baseline_metrics, baseline_data, now),
                     baseline_metrics),
                 baseline_metrics),
             baseline_metrics)

\* lines 304-321: supplementary data from the baseline report
Enrich(record, baseline_metrics, baseline_data, now) ==
    WithTierA(
        WithPerf(
            WithClusters(
                BaselineEstimate(record, baseline_metrics, baseline_data, now),
                baseline_metrics),
            baseline_metrics),
        baseline_metrics)

\* a reconciliation that prefers the pixel-diff report to the swarm report
Reconcile_pixel_first(swarm_data, parity_data, baseline_data, now) ==
    LET headline ==
            IF Truthy(parity_data)
            THEN Headline(extract_visual_parity(parity_data), "pixel_diff",
                          parity_data, now)
            ELSE IF Truthy(swarm_data)
            THEN Headline(extract_swarm_metrics(swarm_data), "swarm_median",
                          swarm_data, now)
            ELSE EmptyDict
    IN  IF Truthy(baseline_data)
        THEN Enrich(headline, extract_baseline_metrics(baseline_data),
                    baseline_data, now)
        ELSE headline

\* lines 283-321: the headline metric from swarm, else from pixel diff, then
\* the baseline data
Reconcile(swarm_data, parity_data, baseline_data, now) ==
    LET headline ==
            IF Truthy(swarm_data)
            THEN Headline(extract_swarm_metrics(swarm_data), "swarm_median",
                          swarm_data, now)
            ELSE IF Truthy(parity_data)
            THEN Headline(extract_visual_parity(parity_data), "pixel_diff",
                          parity_data, now)
            ELSE EmptyDict
    IN  IF Truthy(baseline_data)
        THEN Enrich(headline, extract_baseline_metrics(baseline_data),
                    baseline_data, now)
        ELSE headline

\* a collection that returns a record even when no source resolved
Collected_empty_record(swarm_data, parity_data, baseline_data, git_commit, now) ==
    Update(Reconcile(swarm_data, parity_data, baseline_data, now),
           [git_commit |-> git_commit])

\* lines 279-326, the three sources loaded: None if none of them resolved
Collected(swarm_data, parity_data, baseline_data, git_commit, now) ==
    IF ~Truthy(swarm_data) /\ ~Truthy(parity_data) /\ ~Truthy(baseline_data)
    THEN None
    ELSE Update(Reconcile(swarm_data, parity_data, baseline_data, now),
                [git_commit |-> git_commit])

\* collect_platform_metrics (lines 266-326) on a platform directory
\* sub = [exists, files, git_commit], at time now: None or the record
collect_platform_metrics(sub, now) ==
    IF ~sub.exists THEN None
    ELSE Collected(find_file(sub.files, SWARM_SOURCES).data,
                   find_file(sub.files, PARITY_TEST_SOURCES).data,
                   find_file(sub.files, BASELINE_SOURCES).data,
                   sub.git_commit, now)

\* "if v" for a number that may be null: null and 0 are false
TruthyNumber(v) == v # Null /\ v[1] # 0

\* a penalty whose limits are inclusive
Penalty_inclusive(v, high, mid, low) ==
    IF ~TruthyNumber(v) THEN 0
    ELSE IF v[1] >= high THEN 30
    ELSE IF v[1] >= mid THEN 15
    ELSE IF v[1] >= low THEN 5
    ELSE 0

\* the penalty of one latency against its three limits (lines 337-352)
Penalty(v, high, mid, low) ==
    IF ~TruthyNumber(v) THEN 0
    ELSE IF v[1] > high THEN 30
    ELSE IF v[1] > mid THEN 15
    ELSE IF v[1] > low THEN 5
    ELSE 0

\* calculate_perf_grade (lines 329-363)
calculate_perf_grade(perf) ==
    IF perf = EmptyDict THEN "?"
    ELSE LET score == 100
                      - Penalty(Get(perf, "engine_init_ms", Null), 2000, 1000, 500)
                      - Penalty(Get(perf, "render_time_ms", Null), 5000, 3000, 1500)
         IN  IF score >= 90 THEN "A"
             ELSE IF score >= 80 THEN "B"
             ELSE IF score >= 70 THEN "C"
             ELSE IF score >= 60 THEN "D"
             ELSE "F"

-----------------------------------------------------------------------------
(* collect_metrics.py: history                                             *)

\* entries kept by update_history (line 411)
HISTORY_DAYS == 90

\* the sort key x.get("date", ""): an entry without a date sorts first
DateKey(entry) == IF "date" \in DOMAIN entry THEN Some(entry.date) ELSE Null
KeyLE(a, b) == a = Null \/ (b # Null /\ a[1] <= b[1])

\* sorted(history, key=date): a stable sort; an entry goes after every
\* entry with a smaller key and after the earlier entries with an equal key
SortByDate(history) ==
    LET n == Len(history)
        key == [i \in 1..n |-> DateKey(history[i])]
        Before(j, i) == IF key[j] = key[i] THEN j < i ELSE KeyLE(key[j], key[i])
        place == [i \in 1..n |-> Cardinality({j \in 1..n : Before(j, i)}) + 1]
    IN  IF \A i \in 1..(n - 1) : KeyLE(DateKey(history[i]), DateKey(history[i + 1]))
        THEN history
        ELSE [k \in 1..n |-> history[CHOOSE i \in 1..n : place[i] = k]]

\* a truncation that keeps the first n entries instead of the last
LastN_first(seq, n) == SubSeq(seq, 1, IF Len(seq) < n THEN Len(seq) ELSE n)

\* seq[-n:]
LastN(seq, n) == SubSeq(seq, Max(1, Len(seq) - n + 1), Len(seq))

\* a merge that keeps only what this platform supplies
MergePerf_replaces(entry_perf, perf) ==
    [k \in {j \in DOMAIN perf : perf[j] # Null} |-> perf[k]]

\* lines 406-408: merge the non-null values of perf into the entry's perf
MergePerf(entry_perf, perf) ==
    [k \in DOMAIN entry_perf \cup {j \in DOMAIN perf : perf[j] # Null} |->
        IF k \in DOMAIN perf /\ perf[k] # Null THEN perf[k] ELSE entry_perf[k]]

\* an update of today's entry that drops the platform that has no parity
ApplyPlatform_clears(entry, platform, data) ==
    IF data # None /\ data # EmptyDict /\ "parity" \in DOMAIN data
    THEN Update(entry, (platform :> Some(data.parity)))
    ELSE [k \in DOMAIN entry \ {platform} |-> entry[k]]

\* lines 398-408 for one platform: its parity and perf into today's entry
ApplyPlatform(entry, platform, data) ==
    LET with_parity ==
            IF data # None /\ data # EmptyDict /\ "parity" \in DOMAIN data
            THEN Update(entry, (platform :> Some(data.parity)))
            ELSE entry
    IN  IF data # None /\ data # EmptyDict
             /\ Get(data, "perf", EmptyDict) # EmptyDict
        THEN Update(with_parity,
                    [perf |-> MergePerf(Get(with_parity, "perf", EmptyDict), data.perf)])
        ELSE with_parity

\* the loop of lines 398-408 over platforms.items(), from the i-th name on
RECURSIVE ApplyPlatforms(_, _, _, _)
ApplyPlatforms(entry, names, args, i) ==
    IF i > Len(names) THEN entry
    ELSE ApplyPlatforms(
             IF names[i] \in DOMAIN args
             THEN ApplyPlatform(entry, names[i], args[names[i]])
             ELSE entry,
             names, args, i + 1)

\* an update that appends an entry without looking for today's
update_history_appends(uni, args, day) ==
    LET history == Get(uni, "history", <<>>)
        today_entry == ApplyPlatforms([date |-> day], PLATFORMS, args, 1)
    IN  Update(uni, [history |->
                        LastN(SortByDate(Append(history, today_entry)), HISTORY_DAYS)])

\* update_history (lines 381-412): the dict with its 'history' replaced
update_history(uni, args, day) ==
    LET history == Get(uni, "history", <<>>)
        found == {i \in 1..Len(history) :
                     "date" \in DOMAIN history[i] /\ history[i].date = day}
        \* lines 387-395: the first entry of today, or a new one appended
        appended == IF found = {} THEN Append(history, [date |-> day]) ELSE history
        at == IF found = {} THEN Len(appended)
              ELSE CHOOSE i \in found : \A j \in found : i <= j
        today_entry == ApplyPlatforms(appended[at], PLATFORMS, args, 1)
        updated == [appended EXCEPT ![at] = today_entry]
    IN  Update(uni, [history |-> LastN(SortByDate(updated), HISTORY_DAYS)])

-----------------------------------------------------------------------------
(* Input files of the collector.                                           *)

\* longest results list of a generated swarm or pixel-diff report
MaxResults == 2

\* sequences over S of length 0..n
RECURSIVE SeqsUpTo(_, _)
SeqsUpTo(S, n) ==
    IF n = 0 THEN {<<>>}
    ELSE LET shorter == SeqsUpTo(S, n - 1)
         IN  shorter \cup {Append(q, x) : q \in {r \in shorter : Len(r) = n - 1}, x \in S}

\* results of swarm_report.json; the last two lack fields
SwarmCases ==
    {[case_id |-> "about", diff_pct_median |-> 0, passed |-> TRUE, stable |-> TRUE],
     [case_id |-> "about", diff_pct_median |-> 2636, passed |-> FALSE, stable |-> TRUE],
     [case_id |-> "example_com", diff_pct_median |-> 2636, passed |-> TRUE, stable |-> FALSE],
     [case_id |-> "example_com", diff_pct_median |-> 5051, passed |-> FALSE, stable |-> FALSE],
     [case_id |-> "shelf"],
     [diff_pct_median |-> 10000, stable |-> TRUE]}

\* the rest of the report: a summary block and a timestamp, or neither
SwarmFrames ==
    {EmptyDict,
     [timestamp |-> 1],
     [timestamp |-> 1,
      summary |-> [passed |-> 1, failed |-> 1, stable |-> 1, pass_rate |-> 5000]],
     [summary |-> [passed |-> 2, failed |-> 1, pass_rate |-> 6667]]}

SwarmReports ==
    {Update(frame, [results |-> rs]) :
        frame \in SwarmFrames, rs \in SeqsUpTo(SwarmCases, MaxResults)}

\* results of parity_test_results.json; the last lacks its pixel block
PixelCases ==
    {[case_id |-> "about", type |-> "builtins", pixel |-> [diffPercent |-> 1500]],
     [case_id |-> "about", type |-> "builtins", pixel |-> [diffPercent |-> 2636],
      threshold |-> 3000],
     [case_id |-> "example_com", type |-> "websuite", pixel |-> [diffPercent |-> 1501]],
     [case_id |-> "example_com", type |-> "websuite", pixel |-> [diffPercent |-> 2635],
      threshold |-> 2000],
     [case_id |-> "new_tab", pixel |-> [diffPercent |-> 0]],
     [case_id |-> "shelf", type |-> "builtins"]}

PixelFrames ==
    {EmptyDict,
     [timestamp |-> 1],
     [timestamp |-> 1, passed |-> 1, failed |-> 0]}

PixelReports ==
    {Update(frame, [results |-> rs]) :
        frame \in PixelFrames, rs \in SeqsUpTo(PixelCases, MaxResults)}

\* results of baseline_report.json, with and without a perf block
FullPerf == [engine_init_ms |-> Some(520), html_load_ms |-> Some(300),
             render_time_ms |-> Some(1850)]
SlowPerf == [engine_init_ms |-> Some(2500), render_time_ms |-> Null]

BaselineResultLists ==
    {<<>>,
     <<[case_id |-> "about"]>>,
     <<[case_id |-> "about", perf |-> FullPerf]>>,
     <<[case_id |-> "about", perf |-> EmptyDict], [case_id |-> "shelf", perf |-> SlowPerf]>>,
     <<[case_id |-> "about", perf |-> SlowPerf], [case_id |-> "shelf", perf |-> FullPerf]>>}

BaselineReports ==
    {Update(Update(Update(m, c), b), w) :
        m \in {EmptyDict,
               [timestamp |-> 1,
                metrics |-> [tier_a_pass_rate |-> 30, tier_b_weighted_mean |-> 3000]],
               [metrics |-> [tier_b_weighted_mean |-> 12000]]},
        c \in {EmptyDict, [issue_clusters |-> [paint |-> 4, text |-> 6]]},
        b \in {[builtin_results |-> rs] : rs \in BaselineResultLists},
        w \in {EmptyDict,
               [websuite_results |-> <<[case_id |-> "example_com", perf |-> SlowPerf]>>]}}

\* one report of each kind, and a report whose results list is empty
SwarmSample == [timestamp |-> 1,
                results |-> <<[case_id |-> "about", diff_pct_median |-> 2636,
                               passed |-> TRUE, stable |-> TRUE]>>]
PixelSample == [timestamp |-> 1,
                results |-> <<[case_id |-> "example_com", type |-> "websuite",
                               pixel |-> [diffPercent |-> 3150]]>>]
BaselineSample == [timestamp |-> 1,
                   metrics |-> [tier_a_pass_rate |-> 30, tier_b_weighted_mean |-> 3000],
                   builtin_results |-> <<[case_id |-> "about", perf |-> FullPerf]>>]
SlowBaselineSample ==
    [timestamp |-> 1,
     builtin_results |-> <<[case_id |-> "about",
                            perf |-> [engine_init_ms |-> Some(2500),
                                      html_load_ms |-> Some(300),
                                      render_time_ms |-> Some(6000)]]>>]
NoResults == [timestamp |-> 1, results |-> <<>>]

\* the files of a platform directory, by the five paths looked up
Files(swarm, parity1, parity2, baseline1, baseline2) ==
    (SWARM_SOURCES[1] :> swarm)
    @@ (PARITY_TEST_SOURCES[1] :> parity1) @@ (PARITY_TEST_SOURCES[2] :> parity2)
    @@ (BASELINE_SOURCES[1] :> baseline1) @@ (BASELINE_SOURCES[2] :> baseline2)

\* a few states of each source, for use beside the generated reports
FewSwarm == {Missing, Unparsable, Parsed(EmptyDict), Parsed(NoResults), Parsed(SwarmSample)}
FewPixel == {<<Missing, Missing>>,
             <<Unparsable, Parsed(PixelSample)>>,
             <<Parsed(NoResults), Parsed(PixelSample)>>,
             <<Parsed(EmptyDict), Missing>>,
             <<Parsed(EmptyDict), Parsed(PixelSample)>>}
FewBaseline == {<<Missing, Missing>>,
                <<Parsed(BaselineSample), Unparsable>>,
                <<Missing, Parsed(BaselineSample)>>}

FileSets ==
    {Files(Parsed(s), p[1], p[2], b[1], b[2]) :
        s \in SwarmReports, p \in FewPixel, b \in FewBaseline}
    \cup {Files(s, Parsed(p), Missing, b[1], b[2]) :
        s \in FewSwarm, p \in PixelReports, b \in FewBaseline}
    \cup {Files(s, p[1], p[2], Parsed(b), Missing) :
        s \in FewSwarm, p \in FewPixel, b \in BaselineReports}

\* what git rev-parse HEAD gives: nothing, or a short hash
GitCommits == {Null, Some("73a5d78")}

NoFiles == Files(Missing, Missing, Missing, Missing, Missing)
NoSubmodule == [exists |-> FALSE, files |-> NoFiles, git_commit |-> Null]
NoSubmodules == [macos |-> NoSubmodule, windows |-> NoSubmodule, linux |-> NoSubmodule]

Submodules ==
    {NoSubmodule}
    \cup {[exists |-> TRUE, files |-> f, git_commit |-> g] : f \in FileSets, g \in GitCommits}

-----------------------------------------------------------------------------
(* collect_metrics.py: one call of collect_platform_metrics                *)

FirstDay == 10

CollectorIdle ==
    /\ submodule = NoSubmodule
    /\ metrics = None
    /\ today = FirstDay
    /\ unified_file = Missing
    /\ submodules = NoSubmodules
    /\ platforms = EmptyDict
    /\ run_log = <<>>
    /\ unified = EmptyDict
    /\ calls = <<>>
    /\ grade_input = None
    /\ grade = ""
    /\ input_dir = <<>>
    /\ unified_report = None
    /\ report_saved = FALSE
    /\ aggregate_exit = -1

RegressionIdle ==
    /\ pc = "idle"
    /\ current_results = NoDoc
    /\ baseline_results = NoDoc
    /\ regressions = <<>>
    /\ improvements = <<>>
    /\ analysis = NoResult
    /\ exit_code = -1
    /\ report_written = FALSE
    /\ call = <<>>
    /\ returned = <<>>

PInit == RegressionIdle /\ CollectorIdle

\* a detector is about to be constructed while the collector is idle
TInit ==
    /\ pc = "construct"
    /\ current_results = NoDoc
    /\ baseline_results = NoDoc
    /\ regressions = <<>>
    /\ improvements = <<>>
    /\ analysis = NoResult
    /\ exit_code = -1
    /\ report_written = FALSE
    /\ call = <<>>
    /\ returned = <<>>
    /\ CollectorIdle

\* the regression checker starts while the collector is idle
RStart == RInit /\ CollectorIdle

CollectPlatform ==
    /\ metrics = None
    /\ submodule = NoSubmodule
    /\ \E sub \in Submodules :
          /\ submodule' = sub
          /\ metrics' = collect_platform_metrics(sub, today)
    /\ UNCHANGED <<rvars, gvars, avars, cvars, hvars, today>>

PNext == CollectPlatform

-----------------------------------------------------------------------------
(* collect_metrics.py: main                                                *)

\* a loader that forgets the existing file
load_existing_unified_fresh(file, now) ==
    [generated_at |-> now, platforms |-> EmptyDict, history |-> <<>>]

\* load_existing_unified (lines 366-378): the parsed file, or a new structure
load_existing_unified(file, now) ==
    IF file.state = "ok" THEN file.data
    ELSE [generated_at |-> now, platforms |-> EmptyDict, history |-> <<>>]

\* lines 508-509: the record with its perf grade
WithGrade(m) ==
    IF m # None /\ m # EmptyDict
    THEN Update(m, [perf_grade |-> calculate_perf_grade(Get(m, "perf", EmptyDict))])
    ELSE m

\* lines 504-513: the record of every platform, with its grade, or None
CollectAll(subs, now) ==
    [p \in {PLATFORMS[i] : i \in 1..Len(PLATFORMS)} |->
        IF subs[p].exists
        THEN WithGrade(collect_platform_metrics(subs[p], now))
        ELSE None]

\* "if p": a platform entry that is a non-empty record
IsRecord(p) == p # None /\ p # EmptyDict

\* lines 520-523: the parity of every platform that has a record with one
ParityValues(plats) ==
    {plats[p].parity : p \in {q \in DOMAIN plats :
                                 IsRecord(plats[q]) /\ "parity" \in DOMAIN plats[q]}}

\* the best platform instead of the worst
Minimum_largest(S) == CHOOSE x \in S : \A y \in S : x >= y

\* min(parity_values)
Minimum(S) == CHOOSE x \in S : \A y \in S : x <= y

\* line 530: the key of a perf map, -sum(v or 999), or 0 for an empty map
PerfKey(x) ==
    IF x = EmptyDict THEN 0
    ELSE LET vals == [k \in DOMAIN x |-> IF TruthyNumber(x[k]) THEN x[k][1] ELSE 99900]
             RECURSIVE Total(_)
             Total(K) == IF K = {} THEN 0
                         ELSE LET k == CHOOSE j \in K : TRUE
                              IN  vals[k] + Total(K \ {k})
         IN  0 - Total(DOMAIN x)

\* lines 528-532: max(perf maps of the records, key=PerfKey, default={}), the
\* first of the largest in the order of the platforms
OverallPerf(plats) ==
    LET idx == {i \in 1..Len(PLATFORMS) :
                   PLATFORMS[i] \in DOMAIN plats /\ IsRecord(plats[PLATFORMS[i]])}
        perf(i) == Get(plats[PLATFORMS[i]], "perf", EmptyDict)
    IN  IF idx = {} THEN EmptyDict
        ELSE perf(CHOOSE i \in idx :
                     \A j \in idx : \/ PerfKey(perf(i)) > PerfKey(perf(j))
                                    \/ (PerfKey(perf(i)) = PerfKey(perf(j)) /\ i <= j))

\* a summary that writes an overall block also when no platform has a parity
Summarise_always_overall(uni, plats, now, rounded) ==
    update_history(
        Update(Update(uni, [generated_at |-> now, platforms |-> plats]),
               [overall |-> [parity |-> rounded,
                             perf_grade |-> calculate_perf_grade(OverallPerf(plats))]]),
        plats, now)

\* lines 515-537 of a run whose platforms are plats, the rounded overall
\* parity being rounded: the dict that is saved
Summarise(uni, plats, now, rounded) ==
    LET stamped == Update(uni, [generated_at |-> now, platforms |-> plats])
        with_overall ==
            IF ParityValues(plats) # {}
            THEN Update(stamped,
                        [overall |-> [parity |-> rounded,
                                      perf_grade |->
                                          calculate_perf_grade(OverallPerf(plats))]])
            ELSE stamped
    IN  update_history(with_overall, plats, now)

\* generate_test_data (lines 415-480)
generate_test_data(now) ==
    [generated_at |-> now,
     platforms |->
        [macos |-> [parity |-> 7360, parity_source |-> "pixel_diff",
                    visual_parity |-> 7360, builtins_parity |-> 8550,
                    websuite_parity |-> 6520, tests_passed |-> 7, tests_failed |-> 16,
                    tests_total |-> 23, pass_rate |-> 3040, tier_a_pass_rate |-> 30,
                    issue_clusters |-> [sizing_layout |-> 8, paint |-> 4, text |-> 6,
                                        images |-> 3],
                    perf |-> [engine_init_ms |-> Some(520), render_time_ms |-> Some(1850)],
                    perf_grade |-> "B", last_updated |-> now,
                    git_commit |-> Some("73a5d78")],
         windows |-> [parity |-> 6850, parity_source |-> "pixel_diff",
                      visual_parity |-> 6850, tests_passed |-> 5, tests_failed |-> 18,
                      tests_total |-> 23, pass_rate |-> 2170, perf_grade |-> "C",
                      last_updated |-> now, git_commit |-> Some("22aff27")],
         linux |-> None],
     history |->
        [j \in 1..30 |->
            LET i == j - 1 IN
            [date    |-> now - (29 - i),
             macos   |-> Some(6000 + 50 * i + 30 * (i % 3)),
             windows |-> IF i > 10 THEN Some(5500 + 50 * i + 20 * (i % 4)) ELSE Null,
             linux   |-> Null,
             perf    |-> [engine_init_ms |-> Some(800 - 5 * i),
                          render_time_ms |-> Some(2500 - 30 * i)]]],
     overall |-> [parity |-> 6850, perf_grade |-> "B"]]

\* the directories a run may find for each platform
Dir(files, commit) == [exists |-> TRUE, files |-> files, git_commit |-> commit]

SwarmTie == [results |-> <<[case_id |-> "about", diff_pct_median |-> 2635,
                            passed |-> TRUE, stable |-> TRUE]>>]

MainSubmodules ==
    [macos |->
        {NoSubmodule,
         Dir(NoFiles, Null),
         Dir(Files(Parsed(SwarmSample), Missing, Parsed(PixelSample), Missing, Missing),
             Some("73a5d78")),
         Dir(Files(Unparsable, Missing, Missing, Parsed(BaselineSample), Missing),
             Some("73a5d78"))},
     windows |->
        {Dir(NoFiles, Some("22aff27")),
         Dir(Files(Parsed(SwarmTie), Missing, Missing, Missing, Missing), Null),
         Dir(Files(Missing, Parsed(PixelSample), Missing, Missing,
                   Parsed(SlowBaselineSample)),
             Some("22aff27"))},
     linux |->
        {NoSubmodule,
         Dir(Files(Parsed(NoResults), Missing, Missing, Missing, Missing), Null)}]

\* runs of main in one behaviour, and days after the first
MaxRuns == 2
MaxDays == 1

\* a history of n daily entries that ends the day before the first day
DailyHistory(n) ==
    [i \in 1..n |-> [date |-> FirstDay - n - 1 + i, macos |-> Some(6000 + 10 * i)]]

\* the snapshot after n days of daily runs
DailySnapshot(n) ==
    [generated_at |-> FirstDay - 1, platforms |-> EmptyDict, history |-> DailyHistory(n)]

\* a snapshot written by an earlier run
EarlierSnapshot ==
    [generated_at |-> 9,
     platforms |-> [macos |-> None, windows |-> None, linux |-> None],
     history |-> <<[date |-> 8, macos |-> Some(7000)],
                   [date |-> 9, macos |-> Some(7100), windows |-> Some(6000),
                    perf |-> [engine_init_ms |-> Some(520)]]>>,
     overall |-> [parity |-> 6000, perf_grade |-> "A"]]

CInit ==
    /\ RegressionIdle
    /\ submodule = NoSubmodule
    /\ metrics = None
    /\ today = FirstDay
    /\ unified_file \in {Missing, Unparsable, Parsed(EarlierSnapshot)}
    /\ submodules = NoSubmodules
    /\ platforms = EmptyDict
    /\ run_log = <<>>
    /\ unified = EmptyDict
    /\ calls = <<>>
    /\ grade_input = None
    /\ grade = ""
    /\ input_dir = <<>>
    /\ unified_report = None
    /\ report_saved = FALSE
    /\ aggregate_exit = -1

\* the values round(min(parity_values), 1) can take (line 526)
Roundings(values) ==
    IF values = {} THEN {0} ELSE RoundOneDecimal(Minimum(values))

\* lines 515-541 of a run that collected plats: the snapshot is saved
Save(loaded, plats, now) ==
    \E rounded \in Roundings(ParityValues(plats)) :
        /\ unified_file' = Parsed(Summarise(loaded, plats, now, rounded))
        /\ platforms' = plats

\* lines 496-541 for the directories subs
Collect(subs) ==
    /\ submodules' = subs
    /\ Save(load_existing_unified(unified_file, today), CollectAll(subs, today), today)

\* main without --test (lines 496-541)
RunCollector ==
    /\ Len(run_log) < MaxRuns
    /\ \E m \in MainSubmodules.macos, w \in MainSubmodules.windows,
          l \in MainSubmodules.linux :
          Collect([macos |-> m, windows |-> w, linux |-> l])
    /\ run_log' = Append(run_log, "collect")
    /\ UNCHANGED <<rvars, gvars, avars, pvars, hvars, today>>

\* main with --test (lines 493-495, 539-541)
RunTestMode ==
    /\ Len(run_log) < MaxRuns
    /\ unified_file' = Parsed(generate_test_data(today))
    /\ run_log' = Append(run_log, "test")
    /\ UNCHANGED <<rvars, gvars, avars, pvars, hvars, today, submodules, platforms>>

\* midnight passes between two runs
NextDay ==
    /\ today < FirstDay + MaxDays
    /\ today' = today + 1
    /\ calls' = <<>>
    /\ UNCHANGED <<rvars, gvars, avars, pvars, cvars, unified>>

CNext == RunCollector \/ RunTestMode \/ NextDay

-----------------------------------------------------------------------------
(* collect_metrics.py: calls of update_history                             *)

\* update_history calls on one day
MaxCalls == 2

\* platform entries handed to update_history: None, records with a parity,
\* with a perf map, with both
HistoryArgs ==
    {[macos |-> m, windows |-> w, linux |-> None] :
        m \in {None,
               [parity |-> 7364],
               [parity |-> 6850, perf |-> [engine_init_ms |-> Some(520),
                                           render_time_ms |-> Null]],
               [perf |-> [render_time_ms |-> Some(1850)]]},
        w \in {None, [parity |-> 5000, perf |-> [engine_init_ms |-> Some(2500)]]}}

HInit ==
    /\ RegressionIdle
    /\ submodule = NoSubmodule
    /\ metrics = None
    /\ today = FirstDay
    /\ unified_file = Missing
    /\ submodules = NoSubmodules
    /\ platforms = EmptyDict
    /\ run_log = <<>>
    /\ unified \in {[generated_at |-> FirstDay, platforms |-> EmptyDict, history |-> <<>>],
                    EarlierSnapshot}
    /\ calls = <<>>
    /\ grade_input = None
    /\ grade = ""
    /\ input_dir = <<>>
    /\ unified_report = None
    /\ report_saved = FALSE
    /\ aggregate_exit = -1

UpdateHistory ==
    /\ Len(calls) < MaxCalls
    /\ \E args \in HistoryArgs :
          /\ unified' = update_history(unified, args, today)
          /\ calls' = Append(calls, args)
    /\ UNCHANGED <<rvars, gvars, avars, pvars, cvars, today>>

HNext == UpdateHistory \/ NextDay

-----------------------------------------------------------------------------
(* collect_metrics.py: calls of calculate_perf_grade                       *)

\* a latency of a perf map: a number around the limits, null, or no key
Latency(key, values) ==
    {EmptyDict} \cup {(key :> v) : v \in {Null} \cup {Some(n) : n \in values}}

\* perf maps: the empty map, and maps with any of the three latencies
PerfMaps ==
    {Update(Update(e, r), h) :
        e \in Latency("engine_init_ms", {0, 500, 501, 1000, 1001, 2000, 2001}),
        r \in Latency("render_time_ms", {0, 1500, 1501, 3000, 3001, 5000, 5001}),
        h \in Latency("html_load_ms", {30000})}

GInit ==
    /\ RegressionIdle
    /\ CollectorIdle

GradePerf ==
    /\ grade_input = None
    /\ \E p \in PerfMaps :
          /\ grade_input' = p
          /\ grade' = calculate_perf_grade(p)
    /\ UNCHANGED <<rvars, avars, pvars, cvars, hvars, today>>

GNext == GradePerf

-----------------------------------------------------------------------------
(* collect_metrics.py: daily use over a history near its limit             *)

\* platform entries of a daily call: a parity for macos, or one for windows
DailyArgs ==
    {[macos |-> [parity |-> 7364], windows |-> None, linux |-> None],
     [macos |-> None,
      windows |-> [parity |-> 5000, perf |-> [engine_init_ms |-> Some(2500)]],
      linux |-> None]}

\* update_history is given the snapshot after 87 to 90 daily runs
DInit ==
    /\ RegressionIdle
    /\ submodule = NoSubmodule
    /\ metrics = None
    /\ today = FirstDay
    /\ unified_file = Missing
    /\ submodules = NoSubmodules
    /\ platforms = EmptyDict
    /\ run_log = <<>>
    /\ unified \in {DailySnapshot(HISTORY_DAYS - 3), DailySnapshot(HISTORY_DAYS - 2),
                    DailySnapshot(HISTORY_DAYS - 1), DailySnapshot(HISTORY_DAYS)}
    /\ calls = <<>>
    /\ grade_input = None
    /\ grade = ""
    /\ input_dir = <<>>
    /\ unified_report = None
    /\ report_saved = FALSE
    /\ aggregate_exit = -1

UpsertDaily ==
    /\ Len(calls) < MaxCalls
    /\ \E args \in DailyArgs :
          /\ unified' = update_history(unified, args, today)
          /\ calls' = Append(calls, args)
    /\ UNCHANGED <<rvars, gvars, avars, pvars, cvars, today>>

DNext == UpsertDaily \/ NextDay

\* the directories of a run: none, or a swarm report for macos only
FewSubmodules ==
    {NoSubmodules,
     [macos |-> Dir(Files(Parsed(SwarmSample), Missing, Missing, Missing, Missing),
                    Some("73a5d78")),
      windows |-> NoSubmodule,
      linux |-> NoSubmodule]}

\* main finds no snapshot, one that does not parse, or one with a history
FInit ==
    /\ RegressionIdle
    /\ submodule = NoSubmodule
    /\ metrics = None
    /\ today = FirstDay
    /\ unified_file \in {Missing, Unparsable, Parsed(EarlierSnapshot),
                         Parsed(DailySnapshot(HISTORY_DAYS - 2)),
                         Parsed(DailySnapshot(HISTORY_DAYS - 1)),
                         Parsed(DailySnapshot(HISTORY_DAYS))}
    /\ submodules = NoSubmodules
    /\ platforms = EmptyDict
    /\ run_log = <<>>
    /\ unified = EmptyDict
    /\ calls = <<>>
    /\ grade_input = None
    /\ grade = ""
    /\ input_dir = <<>>
    /\ unified_report = None
    /\ report_saved = FALSE
    /\ aggregate_exit = -1

\* main without --test (lines 496-541) over one of the few directories
RunFew ==
    /\ Len(run_log) < MaxRuns
    /\ \E subs \in FewSubmodules : Collect(subs)
    /\ run_log' = Append(run_log, "collect")
    /\ UNCHANGED <<rvars, gvars, avars, pvars, hvars, today>>

FNext == RunFew \/ RunTestMode \/ NextDay

-----------------------------------------------------------------------------
(* aggregate_parity_results.py                                             *)

\* round(num/den, ndigits) of a float: the nearest multiple of step; on a tie
\* to the even multiple when the value is a binary fraction, else to the
\* side on which the float happens to lie (up tells which)
RoundFloat(num, den, step, up) ==
    LET unit == den * step
        q == num \div unit
        r == num - q * unit
    IN  IF 2 * r # unit \/ ((2 * q + 1) * step) % 25 = 0
        THEN RoundHalfEven(num, den, step)
        ELSE IF up THEN (q + 1) * step ELSE q * step

\* find_swarm_reports (lines 25-36): the files found, grouped under the first
\* platform whose name is in the path
RECURSIVE FirstPlatform(_, _)
FirstPlatform(path, i) ==
    IF i > Len(PLATFORMS) THEN ""
    ELSE IF StrContains(path, PLATFORMS[i]) THEN PLATFORMS[i]
    ELSE FirstPlatform(path, i + 1)

RECURSIVE find_swarm_reports(_, _)
find_swarm_reports(found, platform) ==
    IF found = <<>> THEN <<>>
    ELSE (IF FirstPlatform(Head(found).path, 1) = platform
          THEN <<Head(found).file>> ELSE <<>>)
            \o find_swarm_reports(Tail(found), platform)

\* load_report (lines 39-46): None when the file cannot be read or parsed
load_report(file) == IF file.state = "ok" THEN file.data ELSE None

\* lines 51-57: the results of every report that loads to a true value
RECURSIVE AllResults(_)
AllResults(reports) ==
    IF reports = <<>> THEN <<>>
    ELSE LET report == load_report(Head(reports))
         IN  (IF Truthy(report) THEN Get(report, "results", <<>>) ELSE <<>>)
                \o AllResults(Tail(reports))

\* line 63: the diffs of the results that have one (a result without a
\* measurement has no diff_pct_median key)
RECURSIVE Diffs(_)
Diffs(all_results) ==
    IF all_results = <<>> THEN <<>>
    ELSE (IF "diff_pct_median" \in DOMAIN Head(all_results)
          THEN <<Head(all_results).diff_pct_median>> ELSE <<>>)
            \o Diffs(Tail(all_results))

RawPassed(r) == Get(r, "passed", FALSE)
RawStable(r) == Get(r, "stable", FALSE)
RawError(r) == Get(r, "error", Null) # Null

\* extract_metrics (lines 49-84): None without results or without diffs
PlatformMetrics(all_results, diffs, up) ==
    IF all_results = <<>> \/ diffs = <<>> THEN None
    ELSE LET passed == Count(all_results, RawPassed)
         IN  [visual_parity |-> RoundFloat(10000 * Len(diffs) - SumSeq(diffs),
                                           Len(diffs), 1, up),
              avg_diff_pct  |-> RoundFloat(SumSeq(diffs), Len(diffs), 1, up),
              tests_passed  |-> passed,
              tests_failed  |-> Len(all_results) - passed,
              tests_total   |-> Len(all_results),
              tests_stable  |-> Count(all_results, RawStable),
              tests_errors  |-> Count(all_results, RawError),
              pass_rate     |-> RoundFloat(passed * 10000, Len(all_results), 10, up),
              results       |-> all_results]

extract_metrics(reports, up) ==
    PlatformMetrics(AllResults(reports), Diffs(AllResults(reports)), up)

\* lines 113-126: the metrics of each platform, None for a platform without
\* reports or without valid results
MetricsOrNone(reports, up) ==
    IF reports = <<>> THEN None ELSE extract_metrics(reports, up)

PlatformMetricsOf(found, up) ==
    [p \in {PLATFORMS[i] : i \in 1..Len(PLATFORMS)} |->
        MetricsOrNone(find_swarm_reports(found, p), up)]

\* sum(m[key] for m in platforms_with_data)
RECURSIVE SumOver(_, _, _)
SumOver(platform_metrics, names, key) ==
    IF names = {} THEN 0
    ELSE LET p == CHOOSE x \in names : TRUE
         IN  platform_metrics[p][key] + SumOver(platform_metrics, names \ {p}, key)

\* lines 143-171: the unified report
UnifiedReport(platform_metrics, up) ==
    LET names == DOMAIN platform_metrics
        n == Cardinality(names)
    IN  [platforms_found |-> names,
         overall |->
            [visual_parity  |-> RoundFloat(SumOver(platform_metrics, names, "visual_parity"),
                                           n, 1, up),
             pass_rate      |-> RoundFloat(SumOver(platform_metrics, names, "pass_rate"),
                                           n, 10, up),
             total_tests    |-> SumOver(platform_metrics, names, "tests_total"),
             total_passed   |-> SumOver(platform_metrics, names, "tests_passed"),
             platform_count |-> n],
         by_platform |->
            [p \in names |->
                [k \in DOMAIN platform_metrics[p] \ {"tests_errors", "results"} |->
                    platform_metrics[p][k]]],
         detailed_results |-> [p \in names |-> platform_metrics[p].results]]

\* lines 131-171: the report over the platforms with data, or the error
\* marker when there is none
ReportOver(all_metrics, up) ==
    IF \A p \in DOMAIN all_metrics : all_metrics[p] = None
    THEN [error |-> "No valid results"]
    ELSE UnifiedReport([p \in {q \in DOMAIN all_metrics : all_metrics[q] # None} |->
                            all_metrics[p]], up)

\* aggregate_all_platforms (lines 87-189)
aggregate_all_platforms(found, up) == ReportOver(PlatformMetricsOf(found, up), up)

\* main (lines 222-226): exit 1 when the overall parity is below 50
AggregateExit(report) ==
    IF Get(Get(report, "overall", EmptyDict), "visual_parity", 0) < 5000 THEN 1 ELSE 0

\* swarm reports of a platform's artifacts
PoorReport == [results |-> <<[case_id |-> "about", diff_pct_median |-> 6000,
                              passed |-> FALSE, stable |-> TRUE]>>]
UnmeasuredReport == [results |-> <<[case_id |-> "about", error |-> Some("timeout")]>>]

ReportFiles ==
    {Unparsable, Parsed(EmptyDict), Parsed(UnmeasuredReport),
     Parsed(SwarmSample), Parsed(SwarmTie), Parsed(PoorReport)}

ReportPaths ==
    {"macos/swarm_report.json",
     "macos-windows/swarm_report.json",
     "windows/swarm_report.json",
     "linux/swarm_report.json"}

\* at most MaxReports files, under distinct paths
MaxReports == 2

RECURSIVE ReportsUpTo(_)
ReportsUpTo(n) ==
    IF n = 0 THEN {<<>>}
    ELSE LET fewer == ReportsUpTo(n - 1)
         IN  fewer \cup
             {Append(found, [path |-> path, file |-> file]) :
                 found \in {f \in fewer : Len(f) = n - 1},
                 path \in ReportPaths, file \in ReportFiles}

FoundReports ==
    {found \in ReportsUpTo(MaxReports) :
        \A i, j \in 1..Len(found) : i # j => found[i].path # found[j].path}

AInit == RegressionIdle /\ CollectorIdle

\* one run of aggregate_parity_results.py
Aggregate ==
    /\ aggregate_exit = -1
    /\ \E found \in FoundReports, up \in BOOLEAN :
          LET report == aggregate_all_platforms(found, up)
          IN  /\ input_dir' = found
              /\ unified_report' = report
              /\ report_saved' = ("error" \notin DOMAIN report)
              /\ aggregate_exit' = AggregateExit(report)
    /\ UNCHANGED <<rvars, pvars, cvars, hvars, gvars, today>>

ANext == Aggregate

-----------------------------------------------------------------------------
(* Specifications                                                          *)

SpecRegression == RStart /\ [][RNext]_vars

SpecPlatform == PInit /\ [][PNext]_vars

SpecCollector == CInit /\ [][CNext]_vars

SpecHistory == HInit /\ [][HNext]_vars

SpecTruncation == DInit /\ [][DNext]_vars

SpecPersist == FInit /\ [][FNext]_vars

SpecGrade == GInit /\ [][GNext]_vars

SpecAggregate == AInit /\ [][ANext]_vars

SpecDetector == TInit /\ [][TNext]_vars

-----------------------------------------------------------------------------
(* Claims about the regression checker.                                    *)

Finished == pc \in {"exit", "crashed"}

\* records of a list as a set
Range(seq) == {seq[i] : i \in 1..Len(seq)}

\* percent change of c against b (b # 0) compared with t, without dividing
PctAbove(c, b, t) == IF b > 0 THEN (c - b) * 100 > t * b ELSE (c - b) * 100 < t * b
PctBelow(c, b, t) == IF b > 0 THEN (c - b) * 100 < t * b ELSE (c - b) * 100 > t * b
PctEquals(c, b, t) == (c - b) * 100 = t * b

\* C1: for a baseline_value # 0, compare_metric returns 'regression' iff
\* percent_change > T, 'improvement' iff percent_change < -T and 'neutral'
\* otherwise, T being the metric's threshold; a percent_change equal to T or
\* to -T is 'neutral'; the returned percent_change is
\* (current_value - baseline_value) / baseline_value * 100.
C1_StrictThresholds ==
    (pc = "compared" /\ call.baseline_value # 0) =>
        LET c == call.current_value
            b == call.baseline_value
            T == Get(THRESHOLDS, call.metric_name, DEFAULT_THRESHOLD)
        IN  /\ call.ret[1] = "regression"  <=> PctAbove(c, b, T)
            /\ call.ret[1] = "improvement" <=> PctBelow(c, b, -T)
            /\ call.ret[1] = "neutral" <=> (~PctAbove(c, b, T) /\ ~PctBelow(c, b, -T))
            /\ (PctEquals(c, b, T) \/ PctEquals(c, b, -T)) => call.ret[1] = "neutral"
            /\ call.ret[2].num * b = (c - b) * 100 * call.ret[2].den

\* total_time_ms at exactly +5 percent is neutral
C1_Witness ==
    /\ pc = "compared"
    /\ call.metric_name = "total_time_ms"
    /\ call.current_value = 105
    /\ call.baseline_value = 100
    /\ call.ret = <<"neutral", [num |-> 5, den |-> 1]>>

\* C2: compare_metric returns ('neutral', 0.0) whenever baseline_value is 0,
\* and no record of analyze()'s regressions or improvements has a baseline
\* mean of 0.
C2_ZeroBaselineNeutral ==
    /\ (pc = "compared" /\ call.baseline_value = 0) => call.ret = <<"neutral", Zero>>
    /\ \A rec \in Range(regressions) \cup Range(improvements) : rec.baseline_value # 0

\* chromium's total_time went from a baseline mean of 0 to 100; nothing listed
C2_Witness ==
    /\ pc = "report"
    /\ current_results = Dict([renderers |->
           <<[name |-> "chromium", stats |-> [total_time |-> [mean |-> 100]]]>>])
    /\ baseline_results = Dict([renderers |->
           <<[name |-> "chromium", stats |-> [total_time |-> [mean |-> 0]]]>>])
    /\ regressions = <<>>
    /\ improvements = <<>>

\* the thresholds and names the specification gives for the five metric types
SpecThreshold ==
    [total_time |-> 5, parse_time |-> 10, layout_time |-> 10, paint_time |-> 10,
     memory |-> 15]
SpecMetricName ==
    [total_time |-> "total_time_ms", parse_time |-> "parse_time_ms",
     layout_time |-> "layout_time_ms", paint_time |-> "paint_time_ms",
     memory |-> "memory_mb"]

\* both documents are objects with a 'renderers' key
BothHaveRenderers ==
    /\ current_results.type = "dict" /\ "renderers" \in DOMAIN current_results.value
    /\ baseline_results.type = "dict" /\ "renderers" \in DOMAIN baseline_results.value

\* (renderer, metric type) pairs with a mean on both sides
Compared ==
    {p \in {"chromium", "rustkit"} \X DOMAIN SpecThreshold :
        LET cur  == current_results.value["renderers"]
            base == baseline_results.value["renderers"]
        IN  /\ HasKey(cur, p[1]) /\ HasKey(base, p[1])
            /\ p[2] \in DOMAIN Lookup(cur, p[1])
            /\ p[2] \in DOMAIN Lookup(base, p[1])
            /\ "mean" \in DOMAIN Lookup(cur, p[1])[p[2]]
            /\ "mean" \in DOMAIN Lookup(base, p[1])[p[2]]}

CurMean(p)  == Lookup(current_results.value["renderers"], p[1])[p[2]]["mean"]
BaseMean(p) == Lookup(baseline_results.value["renderers"], p[1])[p[2]]["mean"]

Listed(list, p) ==
    \E rec \in Range(list) : rec.renderer = p[1] /\ rec.metric = SpecMetricName[p[2]]

\* C3: analyze() classifies total_time with 5 (as total_time_ms), parse_time,
\* layout_time and paint_time with 10 and memory with 15, never with the
\* default; compare_metric classifies a name outside the table with 5.
C3_OwnThresholds ==
    /\ (pc = "report" /\ BothHaveRenderers) =>
          \A p \in Compared :
             LET T == SpecThreshold[p[2]] IN
             /\ Listed(regressions, p)
                   <=> (BaseMean(p) # 0 /\ PctAbove(CurMean(p), BaseMean(p), T))
             /\ Listed(improvements, p)
                   <=> (BaseMean(p) # 0 /\ PctBelow(CurMean(p), BaseMean(p), -T))
    /\ (pc = "compared" /\ call.metric_name \notin DOMAIN THRESHOLDS
           /\ call.baseline_value # 0) =>
          /\ call.ret[1] = "regression"
                <=> PctAbove(call.current_value, call.baseline_value, 5)
          /\ call.ret[1] = "improvement"
                <=> PctBelow(call.current_value, call.baseline_value, -5)

\* memory at +15 percent is not listed: neither 5 nor 10 was used
C3_Witness ==
    /\ pc = "report"
    /\ BothHaveRenderers
    /\ <<"chromium", "memory">> \in Compared
    /\ CurMean(<<"chromium", "memory">>) = 115
    /\ BaseMean(<<"chromium", "memory">>) = 100
    /\ regressions = <<>>

\* the current results file was missing or not valid JSON (lines 158-163)
ResultsNotLoaded == pc = "exit" /\ current_results = NoDoc

\* the results loaded, and no baseline document was loaded: --baseline not
\* given and none found, the file absent, or not valid JSON (lines 180-193)
BaselineNotLoaded == pc = "exit" /\ current_results # NoDoc /\ baseline_results = NoDoc

RenderersKeyMissing ==
    \/ /\ baseline_results.type = "dict"
       /\ "renderers" \notin DOMAIN baseline_results.value
    \/ /\ baseline_results.type = "dict"
       /\ "renderers" \in DOMAIN baseline_results.value
       /\ current_results.type = "dict"
       /\ "renderers" \notin DOMAIN current_results.value

\* C5: when the 'renderers' key is missing from the baseline document or from
\* the current document, analyze() compares nothing and returns empty
\* regressions and improvements with an 'error' field ('Invalid baseline
\* format' in the baseline case), and the process exits 0 without writing a
\* report.
C5_MissingRenderers ==
    RenderersKeyMissing =>
        /\ pc # "crashed"
        /\ pc \in {"report", "exit"} =>
              /\ "error" \in DOMAIN analysis
              /\ analysis.regressions = <<>> /\ analysis.improvements = <<>>
              /\ regressions = <<>> /\ improvements = <<>>
              /\ "renderers" \notin DOMAIN baseline_results.value
                    => analysis.error = "Invalid baseline format"
        /\ pc = "exit" => exit_code = 0 /\ ~report_written

\* the run ended on a baseline that has no 'renderers' key
C5_Witness ==
    /\ pc = "exit"
    /\ baseline_results = Dict([git_commit |-> "abc1234"])
    /\ "renderers" \in DOMAIN current_results.value
    /\ analysis.error = "Invalid baseline format"
    /\ exit_code = 0

-----------------------------------------------------------------------------
(* Claims about collect_platform_metrics (SpecPlatform).                   *)

\* a source is resolved when a file under one of its paths parses to a
\* non-empty object
Resolved(files, sources) ==
    \E i \in 1..Len(sources) :
        files[sources[i]].state = "ok" /\ files[sources[i]].data # EmptyDict

SwarmResolved == submodule.exists /\ Resolved(submodule.files, SWARM_SOURCES)
PixelResolved == submodule.exists /\ Resolved(submodule.files, PARITY_TEST_SOURCES)
BaselineResolved == submodule.exists /\ Resolved(submodule.files, BASELINE_SOURCES)

\* the parity_source of the record returned, "none" when there is no record
ParitySource ==
    IF metrics # None /\ "parity_source" \in DOMAIN metrics
    THEN metrics.parity_source
    ELSE "none"

\* C6: the headline metric follows the precedence swarm > pixel diff >
\* baseline estimate: with a swarm file resolved the parity_source is
\* 'swarm_median' whatever else is present, else with a pixel-diff file
\* resolved it is 'pixel_diff', and it is 'baseline_estimate' exactly when
\* the baseline file is the only source resolved.
C6_SourcePrecedence ==
    /\ SwarmResolved => ParitySource = "swarm_median"
    /\ (~SwarmResolved /\ PixelResolved) => ParitySource = "pixel_diff"
    /\ (~SwarmResolved /\ ~PixelResolved /\ BaselineResolved)
          => ParitySource = "baseline_estimate"
    /\ ParitySource = "baseline_estimate"
          => (BaselineResolved /\ ~SwarmResolved /\ ~PixelResolved)

\* all three sources resolved, and the swarm report won
C6_Witness ==
    /\ SwarmResolved /\ PixelResolved /\ BaselineResolved
    /\ ParitySource = "swarm_median"
    /\ "visual_parity" \in DOMAIN metrics
    /\ metrics.parity = metrics.visual_parity

\* the data find_file hands over for a source has no test result under keys
NoResultsIn(files, sources, keys) ==
    \A k \in keys : Get(find_file(files, sources).data, k, <<>>) = <<>>

\* no resolved source of the platform directory contains a test result
NoTestResults ==
    /\ submodule.exists
    /\ NoResultsIn(submodule.files, SWARM_SOURCES, {"results"})
    /\ NoResultsIn(submodule.files, PARITY_TEST_SOURCES, {"results"})
    /\ NoResultsIn(submodule.files, BASELINE_SOURCES,
                   {"builtin_results", "websuite_results"})

\* C7: a platform none of whose resolved sources contains a test result
\* produces no record from collect_platform_metrics, so never a record whose
\* parity is 0.
C7_NoRecordWithoutResults == NoTestResults => metrics = None

-----------------------------------------------------------------------------
(* Claims about a run of the collector (SpecCollector).                    *)

LastRun == IF run_log = <<>> THEN "none" ELSE run_log[Len(run_log)]
Snapshot == unified_file.data
PlatformNames == {PLATFORMS[i] : i \in 1..Len(PLATFORMS)}

\* the directory is missing, or none of its three sources resolves
NothingResolves(sub) ==
    \/ ~sub.exists
    \/ /\ ~Resolved(sub.files, SWARM_SOURCES)
       /\ ~Resolved(sub.files, PARITY_TEST_SOURCES)
       /\ ~Resolved(sub.files, BASELINE_SOURCES)

\* C8: in the snapshot a collector run writes, every one of the three
\* platforms has an entry, and the entry is null for a platform whose
\* directory does not exist or none of whose three sources resolves.
C8_AbsentPlatformNull ==
    LastRun = "collect" =>
        /\ DOMAIN Snapshot.platforms = PlatformNames
        /\ \A p \in PlatformNames :
              NothingResolves(submodules[p]) => Snapshot.platforms[p] = None

\* a run with one directory missing, one without any file, one with a report
C8_Witness ==
    /\ LastRun = "collect"
    /\ ~submodules.macos.exists
    /\ submodules.windows.exists /\ NothingResolves(submodules.windows)
    /\ ~NothingResolves(submodules.linux)
    /\ Snapshot.platforms.macos = None
    /\ Snapshot.platforms.windows = None
    /\ Snapshot.platforms.linux # None

\* the parity of every platform that has a record in the snapshot
RecordParities ==
    {Snapshot.platforms[p].parity :
        p \in {q \in PlatformNames : Snapshot.platforms[q] # None}}

\* v is the least of the parities of the records
IsLeast(v) == \A u \in RecordParities : v <= u

\* C9 as stated: after a run in which a platform produced a record,
\* overall.parity equals the minimum of the parities of the records.
C9_OverallIsMinimum ==
    (LastRun = "collect" /\ RecordParities # {}) =>
        \E v \in RecordParities : IsLeast(v) /\ Snapshot.overall.parity = v

\* C9: after a run in which a platform produced a record, overall.parity is
\* the minimum of the parities of the records rounded to one decimal place
\* (a multiple of 0.1 at most 0.05 away from the minimum); null platforms
\* do not contribute.
C9_OverallRoundedMinimum ==
    (LastRun = "collect" /\ RecordParities # {}) =>
        \E v \in RecordParities :
            /\ IsLeast(v)
            /\ Snapshot.overall.parity % 10 = 0
            /\ Abs(Snapshot.overall.parity - v) <= 5

\* two records of different parity and a null platform: the smaller parity,
\* 73.64, is rounded to 73.6
C9_Witness ==
    /\ LastRun = "collect"
    /\ RecordParities = {7364, 7365}
    /\ Snapshot.platforms.linux = None
    /\ Snapshot.overall.parity = 7360

-----------------------------------------------------------------------------
(* Claims about update_history (SpecHistory).                              *)

History == unified.history
TodayEntries == {i \in 1..Len(History) : History[i].date = today}
OneEntryPerDate ==
    \A i, j \in 1..Len(History) : History[i].date = History[j].date => i = j

\* the platform entry handed to a call carries a parity
HasParity(data) == data # None /\ "parity" \in DOMAIN data

\* the calls of today that carried a parity for platform p, and the last
CallsWithParity(p) == {k \in 1..Len(calls) : HasParity(calls[k][p])}
Latest(S) == CHOOSE k \in S : \A j \in S : j <= k

\* C10 as stated: at most one entry per date, and after two calls on one
\* day exactly one entry for the day, whose platform values are those of
\* the second call.
C10_SecondCallValues ==
    /\ OneEntryPerDate
    /\ Len(calls) = 2 =>
          /\ Cardinality(TodayEntries) = 1
          /\ \A i \in TodayEntries : \A p \in PlatformNames :
                IF HasParity(calls[2][p])
                THEN /\ p \in DOMAIN History[i]
                     /\ History[i][p] = Some(calls[2][p].parity)
                ELSE p \notin DOMAIN History[i]

\* C10: at most one entry per date after any sequence of calls; after the
\* calls of a day exactly one entry for the day, in which a platform has the
\* parity of the last call that carried one for it, and no value if no call
\* of the day carried one.
C10_OneEntryPerDay ==
    /\ OneEntryPerDate
    /\ calls # <<>> =>
          /\ Cardinality(TodayEntries) = 1
          /\ \A i \in TodayEntries : \A p \in PlatformNames :
                IF CallsWithParity(p) = {}
                THEN p \notin DOMAIN History[i]
                ELSE /\ p \in DOMAIN History[i]
                     /\ History[i][p] = Some(calls[Latest(CallsWithParity(p))][p].parity)

\* two calls on one day with different parities for macos: one entry, with
\* the second parity; windows measured by the first call only keeps its value
C10_Witness ==
    /\ Len(calls) = 2
    /\ HasParity(calls[1].macos) /\ HasParity(calls[2].macos)
    /\ calls[1].macos.parity # calls[2].macos.parity
    /\ HasParity(calls[1].windows) /\ ~HasParity(calls[2].windows)
    /\ Cardinality(TodayEntries) = 1
    /\ \A i \in TodayEntries :
          /\ History[i].macos = Some(calls[2].macos.parity)
          /\ History[i].windows = Some(calls[1].windows.parity)

\* the dates of a history, and whether it ascends by date
Dates(h) == {h[i].date : i \in 1..Len(h)}
Ascending(h) == \A i \in 1..(Len(h) - 1) : h[i].date < h[i + 1].date

\* the n most recent of a set of dates
MostRecent(D, n) == {d \in D : Cardinality({e \in D : e > d}) < n}

\* C11: every update_history call leaves the history sorted by date
\* ascending, with at most 90 entries, whose dates are the 90 most recent of
\* the dates it had before and today; so a 91st daily upsert keeps 90 entries
\* and drops the oldest day.
C11_SortedAndTruncated ==
    [][(calls' # calls /\ today' = today) =>
          /\ Ascending(unified'.history)
          /\ Len(unified'.history) <= 90
          /\ Dates(unified'.history)
                = MostRecent(Dates(unified.history) \cup {today}, 90)
          /\ Len(unified'.history) = Cardinality(Dates(unified'.history))]_vars

\* after the upsert of day 91 the history has 90 entries, from the second
\* day to today
C11_Witness ==
    /\ calls # <<>>
    /\ Len(History) = 90
    /\ History[1].date = today - 89
    /\ History[90].date = today
    /\ today - 90 \notin Dates(History)

-----------------------------------------------------------------------------
(* Claims about the persisted history (SpecPersist).                       *)

\* the history of the snapshot file, empty when the file does not parse
FileHistory(file) == IF file.state = "ok" THEN Get(file.data, "history", <<>>) ELSE <<>>

\* the entries of an earlier date of old are in new unchanged unless the
\* truncation to 90 entries removed them, and new has no other entry of an
\* earlier date
EarlierEntriesKept(old, new, day) ==
    /\ \A i \in 1..Len(old) :
          old[i].date # day =>
             \/ \E j \in 1..Len(new) : new[j] = old[i]
             \/ old[i].date \notin MostRecent(Dates(old) \cup {day}, 90)
    /\ \A j \in 1..Len(new) :
          new[j].date # day => \E i \in 1..Len(old) : old[i] = new[j]

\* C12 as stated: every run of the collector keeps the entries of earlier
\* dates unchanged, up to the truncation.
C12_AppendOnly ==
    [][run_log' # run_log =>
          EarlierEntriesKept(FileHistory(unified_file), FileHistory(unified_file'),
                             today)]_vars

\* C12: a run without --test keeps the entries of earlier dates of a
\* snapshot that parses unchanged, up to the truncation to 90 entries, and
\* changes only the entry of its calendar day.
C12_AppendOnlyWithoutTestMode ==
    [][(run_log' # run_log /\ run_log'[Len(run_log')] = "collect") =>
          EarlierEntriesKept(FileHistory(unified_file), FileHistory(unified_file'),
                             today)]_vars

\* after a run, the entries of the earlier snapshot are followed by today's
C12_Witness ==
    /\ LastRun = "collect"
    /\ Len(Snapshot.history) = Len(EarlierSnapshot.history) + 1
    /\ \A i \in 1..Len(EarlierSnapshot.history) :
          Snapshot.history[i] = EarlierSnapshot.history[i]
    /\ Snapshot.history[Len(Snapshot.history)].date = today
    /\ "macos" \in DOMAIN Snapshot.history[Len(Snapshot.history)]

-----------------------------------------------------------------------------
(* Claims about the test counts of a record (SpecPlatform).                *)

\* the results list of the report that supplies the headline metric
SwarmResults == Get(find_file(submodule.files, SWARM_SOURCES).data, "results", <<>>)
PixelResults == Get(find_file(submodule.files, PARITY_TEST_SOURCES).data, "results", <<>>)

\* the number of passing results: the passed flag of a swarm result, the
\* diff against the threshold (default 15) of a pixel-diff result
SwarmPassing ==
    Cardinality({i \in 1..Len(SwarmResults) : Get(SwarmResults[i], "passed", FALSE)})
PixelPassing ==
    Cardinality({i \in 1..Len(PixelResults) :
                    Get(Get(PixelResults[i], "pixel", EmptyDict), "diffPercent", 10000)
                        <= Get(PixelResults[i], "threshold", 1500)})

\* the record was extracted from a swarm report, or a pixel-diff report,
\* with at least one result
FromSwarm == SwarmResolved /\ SwarmResults # <<>>
FromPixel == ~SwarmResolved /\ PixelResolved /\ PixelResults # <<>>

\* C13: a record extracted from N >= 1 results of which k pass has
\* tests_passed = k and pass_rate = round(k / N * 100, 1), with or without a
\* summary block or top-level counts in the input.
C13_PassCounts ==
    /\ FromSwarm =>
          /\ metrics.tests_passed = SwarmPassing
          /\ metrics.pass_rate
                = RoundHalfEven(SwarmPassing * 10000, Len(SwarmResults), 10)
    /\ FromPixel =>
          /\ metrics.tests_passed = PixelPassing
          /\ metrics.pass_rate
                = RoundHalfEven(PixelPassing * 10000, Len(PixelResults), 10)

\* C14: every record extracted from a swarm or a pixel-diff report has
\* tests_passed + tests_failed = tests_total and 0 <= tests_passed <=
\* tests_total, also when the summary block or the top-level counts disagree
\* with the results list.
C14_CountsAddUp ==
    (FromSwarm \/ FromPixel) =>
        /\ metrics.tests_passed + metrics.tests_failed = metrics.tests_total
        /\ 0 <= metrics.tests_passed
        /\ metrics.tests_passed <= metrics.tests_total

-----------------------------------------------------------------------------
(* Claims about calculate_perf_grade (SpecGrade).                          *)

\* the latency of a perf map in milliseconds * 100, 0 when missing or null
LatencyOf(p, key) ==
    IF key \in DOMAIN p /\ p[key] # Null THEN p[key][1] ELSE 0

\* the penalty the specification gives a latency against its three limits
SpecPenalty(v, high, mid, low) ==
    IF v > high THEN 30 ELSE IF v > mid THEN 15 ELSE IF v > low THEN 5 ELSE 0

SpecScore(p) ==
    100 - SpecPenalty(LatencyOf(p, "engine_init_ms"), 2000, 1000, 500)
        - SpecPenalty(LatencyOf(p, "render_time_ms"), 5000, 3000, 1500)

SpecGradeOf(p) ==
    IF p = EmptyDict THEN "?"
    ELSE IF SpecScore(p) >= 90 THEN "A"
    ELSE IF SpecScore(p) >= 80 THEN "B"
    ELSE IF SpecScore(p) >= 70 THEN "C"
    ELSE IF SpecScore(p) >= 60 THEN "D"
    ELSE "F"

\* C17: calculate_perf_grade gives '?' to an empty perf map, and otherwise
\* the letter of 100 minus 30/15/5 for engine_init_ms above 20/10/5 and minus
\* 30/15/5 for render_time_ms above 50/30/15, a missing metric costing
\* nothing, with A from 90, B from 80, C from 70, D from 60 and F below; no
\* other field of the map changes the grade.
C17_GradeFunction ==
    grade_input # None => grade = SpecGradeOf(grade_input)

\* engine_init_ms exactly 20 costs 15, render_time_ms just above 15 costs 5,
\* html_load_ms of 300 costs nothing: 80 is a B
C17_Witness ==
    /\ grade_input = [engine_init_ms |-> Some(2000), render_time_ms |-> Some(1501),
                      html_load_ms |-> Some(30000)]
    /\ grade = "B"

-----------------------------------------------------------------------------
(* Claims about the baseline estimate (SpecPlatform).                      *)

\* the baseline report is the only source resolved
BaselineOnly == ~SwarmResolved /\ ~PixelResolved /\ BaselineResolved

\* the tier_b_weighted_mean the baseline report carries, 100 when it has none
TierB ==
    Get(Get(find_file(submodule.files, BASELINE_SOURCES).data, "metrics", EmptyDict),
        "tier_b_weighted_mean", 10000)

\* C15: when the baseline report is the only source, the record's parity is
\* max(0, 100 - tier_b_weighted_mean) for the value the report carries, 100
\* being used only when the report carries none (30 gives parity 70).
C15_BaselineParity ==
    BaselineOnly => metrics.parity = Max(0, 10000 - TierB)

\* C16: the parity of a baseline estimate is within [0, 100], also when
\* tier_b_weighted_mean is greater than 100.
C16_EstimateInRange ==
    ParitySource = "baseline_estimate" =>
        (0 <= metrics.parity /\ metrics.parity <= 10000)

\* a baseline report alone with tier_b_weighted_mean 120: the parity is 0
C16_Witness ==
    /\ BaselineOnly
    /\ TierB = 12000
    /\ ParitySource = "baseline_estimate"
    /\ metrics.parity = 0

-----------------------------------------------------------------------------
(* Claims about the overall grade (SpecCollector).                         *)

\* the platforms that have a record in the snapshot, and the perf map of one
Recorded == {p \in PlatformNames : Snapshot.platforms[p] # None}
PerfOf(p) == Get(Snapshot.platforms[p], "perf", EmptyDict)

\* the sum of the metric values of a perf map, a null value counting 0
PerfSum(x) ==
    LatencyOf(x, "engine_init_ms") + LatencyOf(x, "html_load_ms")
        + LatencyOf(x, "render_time_ms")

\* C18: overall.perf_grade is the grade calculate_perf_grade gives to the
\* perf map of the platform, among those with a record, whose perf values
\* have the largest sum.
C18_GradeOfLargestSum ==
    (LastRun = "collect" /\ Recorded # {}) =>
        \E p \in Recorded :
            /\ \A q \in Recorded : PerfSum(PerfOf(q)) <= PerfSum(PerfOf(p))
            /\ Snapshot.overall.perf_grade = SpecGradeOf(PerfOf(p))

-----------------------------------------------------------------------------
(* Claims about the supplementary fields of a record (SpecPlatform).       *)

\* what the resolved baseline report carries
BaselineData == find_file(submodule.files, BASELINE_SOURCES).data
BaselineTierA == Get(Get(BaselineData, "metrics", EmptyDict), "tier_a_pass_rate", 0)
BaselineClusters == Get(BaselineData, "issue_clusters", EmptyDict)
BaselinePerf ==
    FirstPerf(Get(BaselineData, "builtin_results", <<>>)
                  \o Get(BaselineData, "websuite_results", <<>>))

\* the record the same directory gives when its baseline report is taken away
WithoutBaseline ==
    Reconcile(find_file(submodule.files, SWARM_SOURCES).data,
              find_file(submodule.files, PARITY_TEST_SOURCES).data,
              None, today)

HeadlineFields ==
    {"parity", "parity_source", "tests_passed", "tests_failed", "tests_total"}

\* a field of a record, Null when the record does not have it
Field(record, k) == IF k \in DOMAIN record THEN Some(record[k]) ELSE Null

\* C19: whenever the baseline report of a platform is resolved, the record's
\* tier_a_pass_rate, and its issue_clusters and perf when the report carries
\* non-empty ones, come from the baseline report, also when the swarm or the
\* pixel-diff report supplied the parity; and in that case the baseline
\* report changes neither parity, nor parity_source, nor the test counts.
C19_EnrichmentIndependent ==
    BaselineResolved =>
        /\ Field(metrics, "tier_a_pass_rate") = Some(BaselineTierA)
        /\ BaselineClusters # EmptyDict =>
               Field(metrics, "issue_clusters") = Some(BaselineClusters)
        /\ BaselinePerf # EmptyDict => Field(metrics, "perf") = Some(BaselinePerf)
        /\ (SwarmResolved \/ PixelResolved) =>
               \A k \in HeadlineFields : Field(metrics, k) = Field(WithoutBaseline, k)

\* a swarm report supplied the parity and the test counts, the baseline
\* report the pass rate of tier A, the issue clusters and the perf map
C19_Witness ==
    /\ SwarmResolved /\ BaselineResolved
    /\ ParitySource = "swarm_median"
    /\ Field(metrics, "tests_total") = Some(1)
    /\ metrics.parity = 7364
    /\ metrics.tier_a_pass_rate = 30
    /\ Field(metrics, "issue_clusters") = Some([paint |-> 4, text |-> 6])
    /\ Field(metrics, "perf") = Some(FullPerf)

-----------------------------------------------------------------------------
(* Claims about find_file (SpecPlatform).                                  *)

\* the candidates of a source list that exist and parse as JSON
ParsedCandidates(files, sources) ==
    {i \in 1..Len(sources) : files[sources[i]].state = "ok"}

\* the first candidate that exists and parses, with its path; (None, None)
\* when there is none
FirstParsed(files, sources) ==
    IF ParsedCandidates(files, sources) = {}
    THEN [data |-> None, source |-> Null]
    ELSE LET i == CHOOSE j \in ParsedCandidates(files, sources) :
                      \A k \in ParsedCandidates(files, sources) : j <= k
         IN  [data |-> files[sources[i]].data, source |-> Some(sources[i])]

SourceLists == {SWARM_SOURCES, PARITY_TEST_SOURCES, BASELINE_SOURCES}

\* C20: find_file returns the first candidate that exists and parses as JSON,
\* with its path, skipping the candidates that are missing or fail to parse,
\* and returns (None, None) only if no candidate parses.
C20_FirstParsedWins ==
    submodule.exists =>
        \A sources \in SourceLists :
            find_file(submodule.files, sources) = FirstParsed(submodule.files, sources)

-----------------------------------------------------------------------------
(* Claims about the exit status of the metrics pipeline (SpecAggregate).   *)

\* the run has ended, and its aggregation completed: a unified report with
\* an overall block was built and saved
AggregationCompleted ==
    /\ aggregate_exit # -1
    /\ report_saved
    /\ "overall" \in DOMAIN unified_report

\* C21: the exit code of the metrics pipeline is 0 on every run in which
\* the aggregation completes, whatever parity values were measured, and is
\* non-zero only when the aggregation step fails entirely.
C21_AdvisoryExit == AggregationCompleted => aggregate_exit = 0

-----------------------------------------------------------------------------
(* Claims about the result lists of analyze() (SpecRegression).            *)

\* the records of a list that are about the pair p = (renderer, metric type)
RecordsOf(list, p) ==
    {i \in 1..Len(list) :
        list[i].renderer = p[1] /\ list[i].metric = SpecMetricName[p[2]]}

\* the classification the specification gives to a compared pair
IsRegression(p) ==
    BaseMean(p) # 0 /\ PctAbove(CurMean(p), BaseMean(p), SpecThreshold[p[2]])
IsImprovement(p) ==
    BaseMean(p) # 0 /\ PctBelow(CurMean(p), BaseMean(p), -SpecThreshold[p[2]])

\* a record holds the two means of its pair and their percent change
RecordOfPair(rec, p) ==
    /\ rec.renderer = p[1]
    /\ rec.metric = SpecMetricName[p[2]]
    /\ rec.current_value = CurMean(p)
    /\ rec.baseline_value = BaseMean(p)
    /\ rec.percent_change.num * BaseMean(p)
          = (CurMean(p) - BaseMean(p)) * 100 * rec.percent_change.den

\* C22: when both inputs have a 'renderers' key, for every renderer present
\* in both and every metric type of the five present on both sides there is
\* exactly one record in regressions if it classifies as regression, exactly
\* one in improvements if it classifies as improvement, and none if neutral;
\* a renderer absent from the baseline, a metric missing on either side and
\* any other metric type contribute no record; no record is in both lists.
C22_ListsDetermined ==
    (pc = "report" /\ BothHaveRenderers) =>
        /\ \A p \in Compared :
              /\ Cardinality(RecordsOf(regressions, p)) = (IF IsRegression(p) THEN 1 ELSE 0)
              /\ Cardinality(RecordsOf(improvements, p)) = (IF IsImprovement(p) THEN 1 ELSE 0)
        /\ \A rec \in Range(regressions) \cup Range(improvements) :
              \E p \in Compared : RecordOfPair(rec, p)
        /\ Range(regressions) \cap Range(improvements) = {}
        /\ analysis.regressions = regressions
        /\ analysis.improvements = improvements

\* total_time 110 against 100: one regression record with percent_change 10
C22_Witness ==
    /\ pc = "report"
    /\ BothHaveRenderers
    /\ Compared = {<<"chromium", "total_time">>}
    /\ regressions = <<[renderer |-> "chromium", metric |-> "total_time_ms",
                        baseline_value |-> 100, current_value |-> 110,
                        percent_change |-> [num |-> 10, den |-> 1]]>>
    /\ improvements = <<>>

-----------------------------------------------------------------------------
(* Claims about repeated calls of analyze() (SpecDetector).                *)

\* C23: calling analyze() a second time on the same RegressionDetector
\* returns the same regressions and improvements lists as the first call
\* (same records, same multiplicity), and the exit-code decision taken from
\* detector.regressions is the same after one call or several.
C23_SecondCallSame ==
    \A i \in 2..Len(returned) :
        /\ returned[i].regressions = returned[1].regressions
        /\ returned[i].improvements = returned[1].improvements
        /\ ExitStatus(returned[i].regressions) = ExitStatus(returned[1].regressions)

-----------------------------------------------------------------------------
(* Claims about malformed inputs of the regression checker                 *)
(* (SpecRegression).                                                       *)

\* an exception left analyze(): the run ended without an analysis
AnalyzeRaised == pc = "crashed" /\ analysis = NoResult

\* C24: for every pair of parsed JSON documents given as current and
\* baseline, whatever required keys are missing, the regression checker ends
\* in a handled outcome (result lists or an error marker, with exit code 0
\* or 1) and never in an unhandled exception.
C24_NoUnhandledException ==
    (current_results # NoDoc /\ baseline_results # NoDoc) =>
        /\ ~AnalyzeRaised
        /\ pc \in {"report", "exit"} =>
              /\ "regressions" \in DOMAIN analysis
              /\ "improvements" \in DOMAIN analysis

-----------------------------------------------------------------------------
(* Claims about what update_history keeps of today's entry (SpecHistory).  *)

\* the entry of a day in a snapshot's history, a new one if it has none
EntryOn(uni, day) ==
    LET h == uni.history
        S == {i \in 1..Len(h) : h[i].date = day}
    IN  IF S = {} THEN [date |-> day] ELSE h[CHOOSE i \in S : TRUE]

PerfOn(uni, day) == Get(EntryOn(uni, day), "perf", EmptyDict)

\* the non-null values a call's platforms supply for a perf key
Supplied(args, k) ==
    {args[p].perf[k] :
        p \in {q \in DOMAIN args :
                  /\ args[q] # None
                  /\ "perf" \in DOMAIN args[q]
                  /\ k \in DOMAIN args[q].perf
                  /\ args[q].perf[k] # Null}}

\* C25: update_history merges and never deletes performance fields: a perf
\* key of today's entry before a call is still present after it, is
\* overwritten only by a non-null value some platform supplies for that key
\* in this call, and a null value never overwrites or removes it.
C25_PerfMerged ==
    [][(calls' # calls /\ today' = today) =>
          \A k \in DOMAIN PerfOn(unified, today) :
             /\ k \in DOMAIN PerfOn(unified', today)
             /\ \/ PerfOn(unified', today)[k] = PerfOn(unified, today)[k]
                \/ PerfOn(unified', today)[k] \in Supplied(calls'[Len(calls')], k)
             /\ Supplied(calls'[Len(calls')], k) = {}
                   => PerfOn(unified', today)[k] = PerfOn(unified, today)[k]]_vars

\* the second call of the day brought a null render time and a new engine
\* time: the entry keeps the render time of the first call beside the new one
C25_Witness ==
    /\ Len(calls) = 2
    /\ calls[1].macos = [perf |-> [render_time_ms |-> Some(1850)]]
    /\ calls[2].macos = [parity |-> 6850,
                         perf |-> [engine_init_ms |-> Some(520), render_time_ms |-> Null]]
    /\ calls[2].windows = None
    /\ PerfOn(unified, today)
          = [render_time_ms |-> Some(1850), engine_init_ms |-> Some(520)]

\* C30: in a same-day second update_history call, a platform that is
\* unavailable in the call (null record, or a record without parity) keeps
\* in today's entry the parity the first call wrote; update_history never
\* removes a platform key from today's entry.
C30_UnavailableKeepsParity ==
    [][(calls' # calls /\ today' = today) =>
          \A p \in PlatformNames :
             /\ p \in DOMAIN EntryOn(unified, today)
                   => p \in DOMAIN EntryOn(unified', today)
             /\ ~HasParity(calls'[Len(calls')][p])
                   => Field(EntryOn(unified', today), p) = Field(EntryOn(unified, today), p)]_vars

\* macos had a parity in the first call and a record without parity in the
\* second, windows a null record in the second: both keep the first values
C30_Witness ==
    /\ Len(calls) = 2
    /\ calls[1].macos = [parity |-> 7364]
    /\ calls[2].macos = [perf |-> [render_time_ms |-> Some(1850)]]
    /\ HasParity(calls[1].windows)
    /\ calls[2].windows = None
    /\ Field(EntryOn(unified, today), "macos") = Some(Some(7364))
    /\ Field(EntryOn(unified, today), "windows") = Some(Some(5000))

-----------------------------------------------------------------------------
(* Claims about the pass verdict of pixel-diff extraction (SpecPlatform).  *)

\* the i-th result of the pixel-diff report passes: its diff percentage is
\* at most its threshold, 15 when it has none
PixelPasses(i) ==
    Get(Get(PixelResults[i], "pixel", EmptyDict), "diffPercent", 10000)
        <= Get(PixelResults[i], "threshold", 1500)

\* C26: in pixel-diff extraction each test passes iff its diff percentage is
\* at most its threshold (15 when absent), and tests_passed and tests_failed
\* are the numbers of tests that pass and fail under this rule, whatever
\* pass/fail values the input document carries.
C26_LocalVerdict ==
    FromPixel =>
        /\ \A i \in 1..Len(PixelResults) :
              metrics.test_results[i].passed = PixelPasses(i)
        /\ metrics.tests_passed
              = Cardinality({i \in 1..Len(PixelResults) : PixelPasses(i)})
        /\ metrics.tests_failed
              = Cardinality({i \in 1..Len(PixelResults) : ~PixelPasses(i)})

-----------------------------------------------------------------------------
(* Claims about the category means of a record (SpecPlatform).             *)

\* the diff of each result of the report, and the results of a category
SwarmDiffs == [i \in 1..Len(SwarmResults) |-> Get(SwarmResults[i], "diff_pct_median", 10000)]
PixelDiffs ==
    [i \in 1..Len(PixelResults) |->
        Get(Get(PixelResults[i], "pixel", EmptyDict), "diffPercent", 10000)]

SwarmIn(category) ==
    {i \in 1..Len(SwarmResults) :
        (Get(SwarmResults[i], "case_id", "unknown")
            \in {"new_tab", "about", "settings", "chrome_rustkit", "shelf"})
        <=> category = "builtins"}
PixelIn(category) ==
    {i \in 1..Len(PixelResults) :
        (Get(PixelResults[i], "type", "unknown") = "builtins") <=> category = "builtins"}

\* the sum of the parities 100 - diff over the results S
RECURSIVE SumParity(_, _)
SumParity(diffs, S) ==
    IF S = {} THEN 0
    ELSE LET i == CHOOSE j \in S : TRUE
         IN  (10000 - diffs[i]) + SumParity(diffs, S \ {i})

\* the field is the mean parity over S to two decimals, and is absent from
\* the record when S is empty
MeanOrAbsent(field, diffs, S) ==
    IF S = {} THEN field \notin DOMAIN metrics
    ELSE /\ field \in DOMAIN metrics
         /\ metrics[field] = RoundHalfEven(SumParity(diffs, S), Cardinality(S), 1)

\* C27: in swarm and pixel-diff extraction builtins_parity and
\* websuite_parity are the arithmetic means of the per-case parity over the
\* cases of the category, and a category with zero cases has its mean
\* skipped: the field is absent from the record, not set to 0.
C27_CategoryMeans ==
    /\ FromSwarm =>
          /\ MeanOrAbsent("builtins_parity", SwarmDiffs, SwarmIn("builtins"))
          /\ MeanOrAbsent("websuite_parity", SwarmDiffs, SwarmIn("websuite"))
    /\ FromPixel =>
          /\ MeanOrAbsent("builtins_parity", PixelDiffs, PixelIn("builtins"))
          /\ MeanOrAbsent("websuite_parity", PixelDiffs, PixelIn("websuite"))

-----------------------------------------------------------------------------
(* Claims about the perf map taken from the baseline report                *)
(* (SpecPlatform).                                                         *)

\* the results of the baseline report in scan order, and those with a
\* non-empty perf
BaselineResults ==
    Get(BaselineData, "builtin_results", <<>>) \o Get(BaselineData, "websuite_results", <<>>)
WithPerfMap ==
    {i \in 1..Len(BaselineResults) : Get(BaselineResults[i], "perf", EmptyDict) # EmptyDict}

\* C28: the performance sub-record comes from the first result, scanning
\* builtin_results and then websuite_results, whose perf is non-empty; all
\* three fields come from that single result, later results never change
\* or complete it, and perf is empty if no result has a non-empty perf.
C28_FirstPerfWins ==
    BaselineResolved =>
        IF WithPerfMap = {} THEN "perf" \notin DOMAIN metrics
        ELSE LET first == CHOOSE i \in WithPerfMap : \A j \in WithPerfMap : i <= j
             IN  /\ "perf" \in DOMAIN metrics
                 /\ DOMAIN metrics.perf = {"engine_init_ms", "html_load_ms", "render_time_ms"}
                 /\ \A k \in DOMAIN metrics.perf :
                       metrics.perf[k] = Get(BaselineResults[first].perf, k, Null)

\* the first perf has no html_load_ms and a null render time, a later
\* result has all three: the record holds the first one's, with nulls
C28_Witness ==
    /\ BaselineResolved
    /\ Len(BaselineResults) >= 2
    /\ Get(BaselineResults[1], "perf", EmptyDict) = SlowPerf
    /\ Get(BaselineResults[2], "perf", EmptyDict) = FullPerf
    /\ Field(metrics, "perf")
          = Some([engine_init_ms |-> Some(2500), html_load_ms |-> Null,
                  render_time_ms |-> Null])

-----------------------------------------------------------------------------
(* Claims about the overall block of a run without parity (SpecCollector). *)

\* what load_existing_unified finds in the file: its content, or nothing
Loaded(file) == IF file.state = "ok" THEN file.data ELSE EmptyDict

\* no platform of a platforms dict has a parity
NoParityIn(plats) ==
    \A p \in DOMAIN plats : plats[p] = None \/ "parity" \notin DOMAIN plats[p]

\* C29: when no platform produces a parity value in a collector run, the
\* run writes no new 'overall' block: the snapshot keeps the block loaded
\* from the previous run unchanged (and has none if none was loaded), while
\* 'platforms' and 'generated_at' are replaced by this run's values.
C29_OverallKept ==
    [][(run_log' # run_log /\ run_log'[Len(run_log')] = "collect"
           /\ NoParityIn(platforms')) =>
          /\ unified_file'.state = "ok"
          /\ Field(unified_file'.data, "overall") = Field(Loaded(unified_file), "overall")
          /\ unified_file'.data.platforms = platforms'
          /\ unified_file'.data.generated_at = today]_vars

\* a run that found no platform, over the snapshot of an earlier day: the
\* overall block of that day is still there under the new generated_at
C29_Witness ==
    /\ LastRun = "collect"
    /\ NoParityIn(platforms)
    /\ PlatformNames \subseteq DOMAIN platforms
    /\ Field(Snapshot, "overall") = Some(EarlierSnapshot.overall)
    /\ Snapshot.generated_at = today
    /\ Snapshot.generated_at # EarlierSnapshot.generated_at
    /\ Snapshot.platforms = platforms

=============================================================================
